---------------------------- MODULE Spec2Model ----------------------------
(***************************************************************************)
(* A model of the recommendation cache of src/cache_utils.py: the          *)
(* CircuitBreaker, the CacheStorage memory and disk tiers, the             *)
(* cache_with_redis wrapper, the maintenance thread and SimpleCache; of    *)
(* the icon caches of src/icon_cache.py and src/utils.py; and of the image *)
(* queue of src/utils.py.                                                  *)
(*                                                                         *)
(* Time is an integer clock `now' (the value time.time() returns).  Every  *)
(* handler runs at one instant of that clock; Tick lets time pass between  *)
(* handlers.  Durations (reset_timeout, a ttl) are counted in ticks.       *)
(* Where a handler reads the clock twice and the difference matters        *)
(* (SimpleCache.get), the second reading may be later than the first.      *)
(*                                                                         *)
(* SpecCB      : the CircuitBreaker alone.                                 *)
(* Spec        : CacheStorage, its get and set called directly.            *)
(* SpecWrapper : CacheStorage called through the cache_with_redis wrapper. *)
(* SpecGated   : the wrapper, and the breaker's methods called beside it.  *)
(* SpecStream  : calls of the wrapped operation with stream=True.          *)
(* SpecLeftOver: CacheStorage over files that an earlier run left on disk. *)
(* SpecThreads : the CircuitBreaker called from two threads.               *)
(* SpecMaint   : the maintenance thread beside calls of the wrapper.       *)
(* SpecUpstream: get_module_recommendations called through the wrapper.    *)
(* SpecKeys    : the cache key the decorators derive from a call.          *)
(* SpecSimple  : SimpleCache, its get and set.                             *)
(* SpecIcons   : the two icon caches over Redis, files and memory.         *)
(* SpecCallers : the wrapper called from two threads with the same key.    *)
(* SpecKeyPairs: the keys of two calls of one decorated function.          *)
(* SpecRaces   : get and set of CacheStorage called from two threads.      *)
(* SpecQueue   : the image queue of src/utils.py, its worker, its requests.*)
(***************************************************************************)
EXTENDS Integers, FiniteSets, Sequences, TLC

(***************************************************************************)
(* Bounds of the model.  failure_threshold and reset_timeout are the       *)
(* constructor parameters of CircuitBreaker (defaults 5 and 60 seconds),   *)
(* taken small here; CBTicks is how far the breaker's clock runs.          *)
(***************************************************************************)
failure_threshold == 3

reset_timeout == 2

CBTicks == 7

\* time.time() at construction: far past reset_timeout after last_failure_time = 0
StartTime == reset_timeout + 1

\* record_failure is not taken once the counter would pass this value
MaxFailures == failure_threshold + 1

(***************************************************************************)
(* Bounds of the cache model.  MemCap is the memory table's capacity (1000 *)
(* in line 97), access_threshold the number of gets that make a key        *)
(* frequently accessed (5 in line 66), expiration the decorator's ttl      *)
(* (3600 s in src/utils.py), all taken small.  MaxTime is how far the      *)
(* cache's clock runs, MaxCount the number of get() calls for one key,     *)
(* MaxCalls the number of calls of the wrapper for one key.                *)
(***************************************************************************)
MemCap == 2

access_threshold == 2

expiration == 2

\* the ttls a direct set passes: a short one and the decorator's
TTLs == {1, expiration}

MaxTime == 1

MaxCount == 1

MaxCalls == 3

\* one key more than the memory table holds.  Key 1 is the key the callers look
\* up and store under with every value, ttl and disk outcome; the other keys are
\* stored (value "A", ttl expiration, a disk write that succeeds) to fill the table.
Keys == 1..(MemCap + 1)

ProbeKeys == {1}

FillerKeys == Keys \ ProbeKeys

\* the values stored: "A" is a value Python takes for true, "Empty" one it takes
\* for false ({} or [] or "" or 0)
Values == {"A", "Empty"}

None == "None"

NoKey == MemCap + 2

VARIABLES
    now,                \* time.time()
    failures,           \* CircuitBreaker.failures
    last_failure_time,  \* CircuitBreaker.last_failure_time
    state,              \* CircuitBreaker.state
    cb,                 \* the last breaker call: what was called, what it returned, history
    local_cache,        \* CacheStorage.local_cache: key -> value, expires, access_time
    disk,               \* the files of disk_cache_dir: key -> file content
    access_counts,      \* CacheStorage.access_counts: key -> count, last_access
    frequently_accessed,\* CacheStorage.frequently_accessed
    last,               \* the cache call just made (none once time has passed):
                        \* its arguments and its outcome
    pending,            \* the wrapper call that raised, while no cache call has followed it
    last_set,           \* per key, the last set(key, value, ttl) made and its disk outcome
    th,                 \* the threads calling the breaker: its lock, where each thread
                        \* is in its call, its local variables
    lock,               \* CacheStorage.lock: who holds it
    last_cleanup,       \* CacheStorage.last_cleanup
    maint,              \* the maintenance thread: where it is in run_maintenance
    key_calls,          \* the calls whose cache key was derived: arguments and key
    cache,              \* SimpleCache.cache: the items (key, value, expires) in dict order
    cache_files,        \* the files SimpleCache wrote to disk_cache_dir
    sc_last,            \* the last SimpleCache call: what was called, what it did
    sc_used,            \* the keys of SimpleCache.cache, least recently used first
    redis,              \* the Redis store: key -> data, expires
    redis_client,       \* icon_cache.IconCache.redis_client is not None
    USE_REDIS,          \* utils.USE_REDIS
    icon_fs,            \* the files of icon_cache.IconCache.fs_cache_dir
    memory_cache,       \* utils.IconCache.memory_cache: key -> path, timestamp
    icon_last,          \* the last icon cache call: what was called, what it did
    callers,            \* the threads calling the wrapper: where each is in its call
    racers,             \* the threads calling get and set of CacheStorage directly
    image_queue,        \* utils.image_queue: the tasks (module name, callback) put
    queue_event,        \* utils.queue_event is set
    processed_items,    \* utils.processed_items
    requests,           \* the calls of get_module_recommendations: where each is,
                        \* its module_info, its result
    worker              \* the thread running process_image_queue: where it is, its task

vars == <<now, failures, last_failure_time, state, cb,
          local_cache, disk, access_counts, frequently_accessed, last, pending, last_set,
          th, lock, last_cleanup, maint, key_calls,
          cache, cache_files, sc_last, sc_used,
          redis, redis_client, USE_REDIS, icon_fs, memory_cache, icon_last, callers,
          racers, image_queue, queue_event, processed_items, requests, worker>>

cacheVars == <<local_cache, disk, access_counts, frequently_accessed, last, pending, last_set>>

cbVars == <<failures, last_failure_time, state, cb>>

threadVars == <<th, lock, last_cleanup, maint>>

\* the state of the other caches of the repository and of the key derivation
keyVars == <<key_calls>>

simpleVars == <<cache, cache_files, sc_last, sc_used>>

iconVars == <<redis, redis_client, USE_REDIS, icon_fs, memory_cache, icon_last>>

callerVars == <<callers>>

raceVars == <<racers>>

queueVars == <<image_queue, queue_event, processed_items, requests, worker>>

extVars == <<keyVars, simpleVars, iconVars, callerVars, raceVars, queueVars>>

\* the threads that call the breaker
Threads == {"t1", "t2"}

NoThread == "none"

\* before any thread has called the breaker, and with the maintenance thread
\* in its first sleep (line 83)
ThreadInit ==
    /\ th = [lock |-> NoThread,
             pc |-> [t \in Threads |-> "idle"],
             tmp |-> [t \in Threads |-> 0],
             cur |-> [t \in Threads |-> 0],
             calls |-> [t \in Threads |-> 0],
             ret |-> [t \in Threads |-> TRUE],
             nfail |-> 0,
             nother |-> 0,
             serial |-> [failures |-> 0, last_failure_time |-> 0, state |-> "closed",
                         ret |-> [t \in Threads |-> TRUE]]]
    /\ lock = "free"
    /\ last_cleanup = StartTime
    /\ maint = [pc |-> "sleep", since |-> StartTime, exc |-> "none", ticks |-> 0]

---------------------------------------------------------------------------
(***************************************************************************)
(* CircuitBreaker                                                          *)
(***************************************************************************)

BreakerStates == {"closed", "open", "half-open"}

\* CircuitBreaker.__init__
CBInit ==
    /\ failures = 0
    /\ last_failure_time = 0
    /\ state = "closed"
    /\ cb = [op |-> "init", ret |-> TRUE, from |-> "closed", run |-> 0,
             failAt |-> 0, since |-> "fresh"]

\* a record_failure that never resets the counter
FailuresBefore_NoReset(t) == failures

\* record_failure, lines 29-30: the counter is reset when the window has elapsed
\* since the previous failure
FailuresBefore(t) ==
    IF t - last_failure_time > reset_timeout THEN 0 ELSE failures

\* a breaker that opens one failure late
ThresholdReached_Late(n) == n > failure_threshold

\* record_failure, line 35: the threshold test
ThresholdReached(n) == n >= failure_threshold

\* the subtraction written the other way round: the window never elapses
WindowElapsed_Swapped(t) == last_failure_time - t > reset_timeout

\* allow_request, line 49: the open breaker lets a probe through
WindowElapsed(t) == t - last_failure_time > reset_timeout

(***************************************************************************)
(* History kept in cb for the claims (the code does not read it):          *)
(*  run    the number of record_failure calls made in a row since the      *)
(*         breaker was closed with zero failures (construction or a        *)
(*         record_success), each within reset_timeout of the one before;   *)
(*         -1 once one of them came later than that.                       *)
(*  failAt the time of the last record_failure call.                       *)
(*  since  "fresh" before any record_success; "below" after a              *)
(*         record_success while the counter has not come back to           *)
(*         failure_threshold; "reached" once it has.                       *)
(***************************************************************************)
RunAfterFailure ==
    IF cb.run = 0 THEN 1
    ELSE IF cb.run > 0 /\ now - cb.failAt <= reset_timeout THEN cb.run + 1
    ELSE -1

RecordFailure ==
    LET n == FailuresBefore(now) + 1 IN
    /\ n <= MaxFailures
    /\ failures' = n
    /\ last_failure_time' = now
    /\ state' = IF ThresholdReached(n) THEN "open" ELSE state
    /\ cb' = [op |-> "record_failure", ret |-> TRUE, from |-> state,
              run |-> RunAfterFailure, failAt |-> now,
              since |-> IF cb.since = "below" /\ n >= failure_threshold
                        THEN "reached" ELSE cb.since]
    /\ UNCHANGED now
    /\ UNCHANGED cacheVars
    /\ UNCHANGED threadVars
    /\ UNCHANGED extVars

\* a record_success that clears the counter and forgets the state
RecordSuccess_KeepState ==
    /\ failures' = 0
    /\ state' = state
    /\ cb' = [op |-> "record_success", ret |-> TRUE, from |-> state,
              run |-> 0, failAt |-> cb.failAt, since |-> "below"]
    /\ UNCHANGED <<now, last_failure_time>>
    /\ UNCHANGED cacheVars
    /\ UNCHANGED threadVars
    /\ UNCHANGED extVars

RecordSuccess ==
    /\ failures' = 0
    /\ state' = "closed"
    /\ cb' = [op |-> "record_success", ret |-> TRUE, from |-> state,
              run |-> 0, failAt |-> cb.failAt, since |-> "below"]
    /\ UNCHANGED <<now, last_failure_time>>
    /\ UNCHANGED cacheVars
    /\ UNCHANGED threadVars
    /\ UNCHANGED extVars

\* an allow_request that tests the window without testing for the open state
AllowRequest_WindowFirst(probe) ==
    /\ \/ /\ WindowElapsed(now)
          /\ state' = "half-open"
          /\ cb' = [cb EXCEPT !.op = "allow_request", !.ret = TRUE, !.from = state]
       \/ /\ ~WindowElapsed(now)
          /\ state' = state
          /\ cb' = [cb EXCEPT !.op = "allow_request", !.ret = (state = "closed" \/ probe),
                              !.from = state]
    /\ UNCHANGED <<now, failures, last_failure_time>>
    /\ UNCHANGED cacheVars
    /\ UNCHANGED threadVars
    /\ UNCHANGED extVars

\* allow_request; `probe' is the outcome of random.random() < 0.1
AllowRequest(probe) ==
    /\ \/ /\ state = "closed"
          /\ state' = state
          /\ cb' = [cb EXCEPT !.op = "allow_request", !.ret = TRUE, !.from = state]
       \/ /\ state = "open"
          /\ WindowElapsed(now)
          /\ state' = "half-open"
          /\ cb' = [cb EXCEPT !.op = "allow_request", !.ret = TRUE, !.from = state]
       \/ /\ state = "open"
          /\ ~WindowElapsed(now)
          /\ state' = state
          /\ cb' = [cb EXCEPT !.op = "allow_request", !.ret = FALSE, !.from = state]
       \/ /\ state = "half-open"
          /\ state' = state
          /\ cb' = [cb EXCEPT !.op = "allow_request", !.ret = probe, !.from = state]
    /\ UNCHANGED <<now, failures, last_failure_time>>
    /\ UNCHANGED cacheVars
    /\ UNCHANGED threadVars
    /\ UNCHANGED extVars

\* time passes between two calls
CBTick ==
    /\ now < StartTime + CBTicks
    /\ now' = now + 1
    /\ UNCHANGED cbVars
    /\ UNCHANGED cacheVars
    /\ UNCHANGED threadVars
    /\ UNCHANGED extVars

---------------------------------------------------------------------------
(***************************************************************************)
(* The CircuitBreaker called from several threads.  Each method runs       *)
(* inside `with self.lock' (lines 27, 40, 45).  A thread's call is a       *)
(* sequence of steps, and steps of different threads interleave:           *)
(*   record_failure  enter  lines 27-32: take the lock, read the clock,    *)
(*                          reset the counter if the window has elapsed,   *)
(*                          load the counter                               *)
(*                   store  lines 32-33: store counter + 1, store the time *)
(*                   check  lines 35-36: the threshold test, and release   *)
(*   record_success  enter  lines 40-41: take the lock, zero the counter   *)
(*                   close  line 42: close the breaker, and release        *)
(*   allow_request   lines 45-54, one step                                 *)
(* th.serial is the breaker as the same calls leave it when each is made   *)
(* in one piece, in the order in which the calls entered (the code does    *)
(* not read it); th.nfail and th.nother count the calls entered.           *)
(***************************************************************************)
\* the number of calls each thread makes
MaxThreadCalls == 2

\* how far the clock runs while the threads call
ThreadTicks == 3

\* a breaker whose methods do not take the lock
LockAvailable_Always(t) == TRUE

\* `with self.lock' can be entered
LockAvailable(t) == th.lock = NoThread

\* record_failure made in one piece at time t on breaker b
SerialFailure(b, t) ==
    LET n == (IF t - b.last_failure_time > reset_timeout THEN 0 ELSE b.failures) + 1 IN
    [b EXCEPT !.failures = n, !.last_failure_time = t,
              !.state = IF n >= failure_threshold THEN "open" ELSE b.state]

\* record_success made in one piece on breaker b
SerialSuccess(b) == [b EXCEPT !.failures = 0, !.state = "closed"]

\* what allow_request returns and the state it leaves, lines 46-54
AllowOutcome(st, lft, t, probe) ==
    IF st = "closed" THEN [ret |-> TRUE, state |-> st]
    ELSE IF st = "open" THEN
        IF t - lft > reset_timeout THEN [ret |-> TRUE, state |-> "half-open"]
        ELSE [ret |-> FALSE, state |-> st]
    ELSE [ret |-> probe, state |-> st]

\* allow_request made in one piece by thread t at time tm on breaker b
SerialAllow(b, t, tm, probe) ==
    LET o == AllowOutcome(b.state, b.last_failure_time, tm, probe) IN
    [b EXCEPT !.state = o.state, !.ret[t] = o.ret]

ThreadFailureEnter(t) ==
    /\ th.pc[t] = "idle"
    /\ th.calls[t] < MaxThreadCalls
    /\ LockAvailable(t)
    /\ failures' = FailuresBefore(now)
    /\ th' = [th EXCEPT !.lock = t, !.pc[t] = "store", !.cur[t] = now,
                        !.tmp[t] = FailuresBefore(now),
                        !.calls[t] = @ + 1, !.nfail = @ + 1,
                        !.serial = SerialFailure(@, now)]
    /\ UNCHANGED <<now, last_failure_time, state, cb, lock, last_cleanup, maint>>
    /\ UNCHANGED cacheVars
    /\ UNCHANGED extVars

ThreadFailureStore(t) ==
    /\ th.pc[t] = "store"
    /\ failures' = th.tmp[t] + 1
    /\ last_failure_time' = th.cur[t]
    /\ th' = [th EXCEPT !.pc[t] = "check"]
    /\ UNCHANGED <<now, state, cb, lock, last_cleanup, maint>>
    /\ UNCHANGED cacheVars
    /\ UNCHANGED extVars

ThreadFailureCheck(t) ==
    /\ th.pc[t] = "check"
    /\ state' = IF ThresholdReached(failures) THEN "open" ELSE state
    /\ th' = [th EXCEPT !.pc[t] = "idle", !.lock = NoThread, !.tmp[t] = 0, !.cur[t] = 0]
    /\ UNCHANGED <<now, failures, last_failure_time, cb, lock, last_cleanup, maint>>
    /\ UNCHANGED cacheVars
    /\ UNCHANGED extVars

ThreadSuccessEnter(t) ==
    /\ th.pc[t] = "idle"
    /\ th.calls[t] < MaxThreadCalls
    /\ LockAvailable(t)
    /\ failures' = 0
    /\ th' = [th EXCEPT !.lock = t, !.pc[t] = "close",
                        !.calls[t] = @ + 1, !.nother = @ + 1,
                        !.serial = SerialSuccess(@)]
    /\ UNCHANGED <<now, last_failure_time, state, cb, lock, last_cleanup, maint>>
    /\ UNCHANGED cacheVars
    /\ UNCHANGED extVars

ThreadSuccessClose(t) ==
    /\ th.pc[t] = "close"
    /\ state' = "closed"
    /\ th' = [th EXCEPT !.pc[t] = "idle", !.lock = NoThread]
    /\ UNCHANGED <<now, failures, last_failure_time, cb, lock, last_cleanup, maint>>
    /\ UNCHANGED cacheVars
    /\ UNCHANGED extVars

ThreadAllow(t, probe) ==
    LET o == AllowOutcome(state, last_failure_time, now, probe) IN
    /\ th.pc[t] = "idle"
    /\ th.calls[t] < MaxThreadCalls
    /\ LockAvailable(t)
    /\ state' = o.state
    /\ th' = [th EXCEPT !.ret[t] = o.ret,
                        !.calls[t] = @ + 1, !.nother = @ + 1,
                        !.serial = SerialAllow(@, t, now, probe)]
    /\ UNCHANGED <<now, failures, last_failure_time, cb, lock, last_cleanup, maint>>
    /\ UNCHANGED cacheVars
    /\ UNCHANGED extVars

\* time passes while the threads run
ThreadTick ==
    /\ now < StartTime + ThreadTicks
    /\ now' = now + 1
    /\ UNCHANGED cbVars
    /\ UNCHANGED cacheVars
    /\ UNCHANGED threadVars
    /\ UNCHANGED extVars

NextThreads ==
    \/ ThreadTick
    \/ \E t \in Threads : ThreadFailureEnter(t)
    \/ \E t \in Threads : ThreadFailureStore(t)
    \/ \E t \in Threads : ThreadFailureCheck(t)
    \/ \E t \in Threads : ThreadSuccessEnter(t)
    \/ \E t \in Threads : ThreadSuccessClose(t)
    \/ \E t \in Threads, probe \in BOOLEAN : ThreadAllow(t, probe)

---------------------------------------------------------------------------
(***************************************************************************)
(* CacheStorage: the memory table and the disk files                       *)
(***************************************************************************)

cache_version == "1.0"

Truthy(v) == v \notin {"Empty", None}

Drop(f, k) == [j \in DOMAIN f \ {k} |-> f[j]]

Put(f, k, e) == [j \in DOMAIN f \cup {k} |-> IF j = k THEN e ELSE f[j]]

EmptyTable == [j \in {} |-> None]

\* the pickled envelope of lines 111-115
\* and the time the file was written at (os.path.getctime, line 197)
File(v, exp, t) ==
    [readable |-> TRUE, value |-> v, expires |-> exp, version |-> cache_version,
     ctime |-> t]

\* a file pickle.load cannot read: open(path, 'wb') truncated it and the dump failed
Corrupt(t) ==
    [readable |-> FALSE, value |-> None, expires |-> 0, version |-> "", ctime |-> t]

NoCall ==
    [op |-> "none", key |-> NoKey, value |-> None, ttl |-> 0,
     ret |-> None, src |-> "", exp |-> 0, rerr |-> FALSE, werr |-> FALSE,
     raised |-> "none", invoked |-> FALSE, evicted |-> NoKey, after |-> "none"]

\* no call of the wrapper is waiting to be repeated
NoPending == [key |-> NoKey, rerr |-> FALSE]

\* CacheStorage.__init__, with an empty cache directory
CacheInit ==
    /\ local_cache = EmptyTable
    /\ disk = EmptyTable
    /\ access_counts = EmptyTable
    /\ frequently_accessed = {}
    /\ last = NoCall
    /\ pending = NoPending
    /\ last_set = EmptyTable

\* line 97: the table is full
AtCapacity(lc) == Cardinality(DOMAIN lc) >= MemCap

\* an eviction that takes the most recently used entry
Victims_MRU(lc) ==
    {k \in DOMAIN lc : \A j \in DOMAIN lc : lc[k].access_time >= lc[j].access_time}

\* line 98: min over access_time; entries of equal access_time are all candidates
Victims(lc) ==
    {k \in DOMAIN lc : \A j \in DOMAIN lc : lc[k].access_time <= lc[j].access_time}

VictimChoices(lc) == IF AtCapacity(lc) THEN Victims(lc) ELSE {NoKey}

\* a memory write that leaves an entry the key already has
StoreMemory_KeepFirst(lc, victim, key, value, ttl, t) ==
    IF key \in DOMAIN lc THEN lc
    ELSE Put(lc, key, [value |-> value, expires |-> t + ttl, access_time |-> t])

\* lines 96-105: evict when full, then insert
StoreMemory(lc, victim, key, value, ttl, t) ==
    Put(IF AtCapacity(lc) THEN Drop(lc, victim) ELSE lc, key,
        [value |-> value, expires |-> t + ttl, access_time |-> t])

\* what the disk write of lines 109-115 does: it succeeds, open() raises and the
\* old file stays, or pickle.dump raises after open() truncated the file
DiskWriteOutcomes == {"ok", "open_fails", "dump_fails"}

StoreDisk(dk, key, value, ttl, t, w) ==
    CASE w = "ok" -> Put(dk, key, File(value, t + ttl, t))
      [] w = "dump_fails" -> Put(dk, key, Corrupt(t))
      [] OTHER -> dk

WriteError(w) ==
    CASE w = "ok" -> "none"
      [] w = "open_fails" -> "OSError"
      [] OTHER -> "PicklingError"

\* a handler that names the pickle errors only
CaughtByExcept_PickleOnly(exc) == exc \in {"PicklingError", "UnpicklingError"}

\* lines 116 and 153: except Exception
CaughtByExcept(exc) == exc \in {"OSError", "PicklingError", "UnpicklingError", "KeyError"}

Escapes(exc) == exc # "none" /\ ~CaughtByExcept(exc)

\* _store_in_all_layers: the tables after it, and whether it raised
StoreInAllLayers(lc, dk, victim, key, value, ttl, t, w) ==
    [lc |-> StoreMemory(lc, victim, key, value, ttl, t),
     dk |-> StoreDisk(dk, key, value, ttl, t, w),
     raised |-> Escapes(WriteError(w))]

\* what reading an existing file does: "ok", or "fails" (open or read raises)
DiskReadOutcomes == {"ok", "fails"}

ReadError(dk, key, r) ==
    IF key \notin DOMAIN dk THEN "none"
    ELSE IF r = "fails" THEN "OSError"
    ELSE IF ~dk[key].readable THEN "UnpicklingError"
    ELSE "none"

\* a comparison of expiry and time turned around
Fresh_Reversed(exp, t) == exp < t

\* an entry that is still served at the instant it expires
Fresh_AtExpiry(exp, t) == exp >= t

\* line 137 and line 149: the entry is still good at time t
Fresh(exp, t) == exp > t

\* lines 124-131: access tracking
Track(ac, key, t) ==
    Put(ac, key, [count |-> (IF key \in DOMAIN ac THEN ac[key].count ELSE 0) + 1,
                  last_access |-> t])

\* a key counted as frequent only once its counter has passed the threshold
Frequent_Late(fa, ac, key) ==
    IF ac[key].count > access_threshold THEN fa \cup {key} ELSE fa

\* lines 130-131
Frequent(fa, ac, key) ==
    IF ac[key].count >= access_threshold THEN fa \cup {key} ELSE fa

\* lines 144-154: the disk lookup, made when memory has missed
DiskLookup(lc, dk, key, t, r) ==
    LET err == ReadError(dk, key, r) IN
    IF key \notin DOMAIN dk THEN
        [lc |-> lc, dk |-> dk, ret |-> None, src |-> "miss", exp |-> 0,
         rerr |-> FALSE, raised |-> FALSE]
    ELSE IF err # "none" THEN
        [lc |-> lc, dk |-> dk, ret |-> None, src |-> "miss", exp |-> 0,
         rerr |-> TRUE, raised |-> Escapes(err)]
    ELSE IF Fresh(dk[key].expires, t) /\ dk[key].version = cache_version THEN
        [lc |-> lc, dk |-> dk, ret |-> dk[key].value, src |-> "disk",
         exp |-> dk[key].expires, rerr |-> FALSE, raised |-> FALSE]
    ELSE
        [lc |-> lc, dk |-> Drop(dk, key), ret |-> None, src |-> "miss", exp |-> 0,
         rerr |-> FALSE, raised |-> FALSE]

\* lines 134-156: memory first, then disk
Lookup(lc, dk, key, t, r) ==
    IF key \in DOMAIN lc /\ Fresh(lc[key].expires, t) THEN
        [lc |-> [lc EXCEPT ![key].access_time = t], dk |-> dk,
         ret |-> lc[key].value, src |-> "memory", exp |-> lc[key].expires,
         rerr |-> FALSE, raised |-> FALSE]
    ELSE DiskLookup(Drop(lc, key), dk, key, t, r)

CountOf(key) == IF key \in DOMAIN access_counts THEN access_counts[key].count ELSE 0

\* the counters CacheStorage keeps are the access counts of lines 124-128, one
\* per key; it has no counter of hits, of misses or of errors.  Their total:
RECURSIVE SumCounts(_, _)
SumCounts(ac, ks) ==
    IF ks = {} THEN 0
    ELSE LET k == CHOOSE j \in ks : TRUE IN ac[k].count + SumCounts(ac, ks \ {k})

TotalCount(ac) == SumCounts(ac, DOMAIN ac)

\* the lookup of key goes to the disk file
ReadsDisk(lc, dk, key, t) ==
    /\ ~(key \in DOMAIN lc /\ Fresh(lc[key].expires, t))
    /\ key \in DOMAIN dk

\* CacheStorage.get(key)
Get(key, r) ==
    LET g == Lookup(local_cache, disk, key, now, r)
        ac == Track(access_counts, key, now) IN
    /\ CountOf(key) < MaxCount
    /\ r # "ok" => ReadsDisk(local_cache, disk, key, now)
    /\ access_counts' = ac
    /\ frequently_accessed' = Frequent(frequently_accessed, ac, key)
    /\ local_cache' = g.lc
    /\ disk' = g.dk
    /\ last' = [NoCall EXCEPT !.op = "get", !.key = key, !.ret = g.ret,
                !.src = g.src, !.exp = g.exp, !.rerr = g.rerr,
                !.raised = IF g.raised THEN "tier" ELSE "none"]
    /\ pending' = NoPending
    /\ UNCHANGED <<now, last_set>>
    /\ UNCHANGED cbVars
    /\ UNCHANGED threadVars
    /\ UNCHANGED extVars

Evicted(lc, victim, key) ==
    IF AtCapacity(lc) /\ victim # key THEN victim ELSE NoKey

\* CacheStorage.set(key, value, ttl)
Set(key, value, ttl, w) ==
    \E victim \in VictimChoices(local_cache) :
        LET st == StoreInAllLayers(local_cache, disk, victim, key, value, ttl, now, w) IN
        /\ local_cache' = st.lc
        /\ disk' = st.dk
        /\ last' = [NoCall EXCEPT !.op = "set", !.key = key, !.value = value,
                    !.ttl = ttl, !.werr = (w # "ok"),
                    !.raised = IF st.raised THEN "tier" ELSE "none",
                    !.evicted = Evicted(local_cache, victim, key)]
        /\ last_set' = Put(last_set, key, [value |-> value, expires |-> now + ttl, w |-> w])
        /\ pending' = NoPending
        /\ UNCHANGED <<now, access_counts, frequently_accessed>>
        /\ UNCHANGED cbVars
        /\ UNCHANGED threadVars
        /\ UNCHANGED extVars

(***************************************************************************)
(* cache_with_redis: the wrapper around an operation.  `key' is the key    *)
(* the call's arguments hash to; `out' is what the wrapped operation does  *)
(* when it is invoked: it returns a value or it raises.                    *)
(***************************************************************************)
Raise == "raise"

OpOutcomes == Values \cup {Raise}

\* line 225: if cached_result
IsHit(cached_result) == Truthy(cached_result)

\* a wrapper that stores in a finally clause
CallStores_Always(out) == TRUE

\* lines 230-231: set() runs when func() has returned
CallStores(out) == out # Raise

ResultOf(out) == IF out = Raise THEN None ELSE out

\* the wrapper, lines 224-232
Call(key, r, out, w) ==
    LET g   == Lookup(local_cache, disk, key, now, r)
        ac  == Track(access_counts, key, now)
        hit == IsHit(g.ret)
        aft == IF pending.key # key THEN "none"
               ELSE IF pending.rerr THEN "raise after read error" ELSE "raise"
    IN
    /\ CountOf(key) < MaxCalls
    /\ r # "ok" => ReadsDisk(local_cache, disk, key, now)
    /\ access_counts' = ac
    /\ frequently_accessed' = Frequent(frequently_accessed, ac, key)
    /\ IF g.raised THEN
           /\ out = Raise /\ w = "ok"     \* neither is used
           /\ local_cache' = g.lc
           /\ disk' = g.dk
           /\ last' = [NoCall EXCEPT !.op = "call", !.key = key, !.src = g.src,
                       !.rerr = g.rerr, !.after = aft, !.raised = "tier"]
           /\ pending' = NoPending
           /\ UNCHANGED last_set
       ELSE IF hit THEN
           /\ out = Raise /\ w = "ok"     \* neither is used
           /\ local_cache' = g.lc
           /\ disk' = g.dk
           /\ last' = [NoCall EXCEPT !.op = "call", !.key = key, !.ret = g.ret,
                       !.src = g.src, !.exp = g.exp, !.rerr = g.rerr, !.after = aft]
           /\ pending' = NoPending
           /\ UNCHANGED last_set
       ELSE IF ~CallStores(out) THEN
           /\ w = "ok"                    \* not used
           /\ local_cache' = g.lc
           /\ disk' = g.dk
           /\ last' = [NoCall EXCEPT !.op = "call", !.key = key, !.src = g.src,
                       !.rerr = g.rerr, !.invoked = TRUE, !.after = aft,
                       !.raised = "upstream"]
           /\ pending' = [key |-> key, rerr |-> g.rerr]
           /\ UNCHANGED last_set
       ELSE
           \E victim \in VictimChoices(g.lc) :
               LET st == StoreInAllLayers(g.lc, g.dk, victim, key, ResultOf(out),
                                          expiration, now, w) IN
               /\ local_cache' = st.lc
               /\ disk' = st.dk
               /\ last' = [NoCall EXCEPT !.op = "call", !.key = key,
                           !.value = ResultOf(out), !.ttl = expiration,
                           !.ret = ResultOf(out), !.src = g.src, !.rerr = g.rerr,
                           !.werr = (w # "ok"), !.invoked = TRUE, !.after = aft,
                           !.raised = IF out = Raise THEN "upstream"
                                      ELSE IF st.raised THEN "tier" ELSE "none",
                           !.evicted = Evicted(g.lc, victim, key)]
               /\ last_set' = Put(last_set, key, [value |-> ResultOf(out),
                                                  expires |-> now + expiration, w |-> w])
               /\ pending' = NoPending
    /\ UNCHANGED now
    /\ UNCHANGED cbVars
    /\ UNCHANGED threadVars
    /\ UNCHANGED extVars

\* time passes between two calls
Tick ==
    /\ now < StartTime + MaxTime
    /\ now' = now + 1
    /\ last' = NoCall
    /\ UNCHANGED <<local_cache, disk, access_counts, frequently_accessed, pending,
                   last_set>>
    /\ UNCHANGED cbVars
    /\ UNCHANGED threadVars
    /\ UNCHANGED extVars

\* no call of another cache or of a key derivation has been made
NoSimpleCall ==
    [op |-> "none", key |-> NoKey, ret |-> None, src |-> "", exp |-> 0,
     full |-> FALSE, evicted |-> NoKey, lru |-> NoKey, delay |-> 0]

NoIconCall ==
    [op |-> "none", cls |-> "", module |-> "", ret |-> None, src |-> "",
     raised |-> FALSE, redis_raised |-> FALSE, fr |-> "ok", fw |-> "ok",
     cleared |-> {}, calls |-> 0]

\* no call of a decorator has derived a key
KeyInit == key_calls = <<>>

\* SimpleCache() of line 331
SimpleInit ==
    /\ cache = <<>>
    /\ cache_files = EmptyTable
    /\ sc_last = NoSimpleCall
    /\ sc_used = <<>>

\* the icon caches with nothing stored
IconStores ==
    /\ redis = EmptyTable
    /\ icon_fs = EmptyTable
    /\ memory_cache = EmptyTable
    /\ icon_last = NoIconCall

\* and with no Redis connection
IconInit ==
    /\ IconStores
    /\ redis_client = FALSE
    /\ USE_REDIS = FALSE

\* no thread is in a call of the wrapper
CallerInit ==
    callers = [pc |-> [t \in Threads |-> "idle"],
               cached_result |-> [t \in Threads |-> None],
               result |-> [t \in Threads |-> None],
               ret |-> [t \in Threads |-> None],
               invoked |-> [t \in Threads |-> FALSE],
               current_time |-> [t \in Threads |-> 0],
               stores |-> <<>>]

\* no thread has called get or set
RaceInit ==
    racers = [pc |-> [t \in Threads |-> "idle"],
              op |-> [t \in Threads |-> "none"],
              value |-> [t \in Threads |-> None],
              ttl |-> [t \in Threads |-> 0],
              exp |-> [t \in Threads |-> 0],
              current_time |-> [t \in Threads |-> 0],
              ret |-> [t \in Threads |-> None],
              calls |-> [t \in Threads |-> 0],
              wrote |-> NoThread]

\* the requests whose recommendations are built
Requests == {"r1", "r2"}

NoTask == [module |-> "", request |-> ""]

\* src/utils.py lines 414-421, and the worker at line 460 before any request
QueueInit ==
    /\ image_queue = <<>>
    /\ queue_event = FALSE
    /\ processed_items = {}
    /\ requests = [pc |-> [r \in Requests |-> "idle"],
                   modules |-> [r \in Requests |-> <<>>],
                   put |-> [r \in Requests |-> 0],
                   module_info |-> [r \in Requests |-> {}],
                   result |-> [r \in Requests |-> {}],
                   ended |-> [r \in Requests |-> "none"]]
    /\ worker = [pc |-> "get", task |-> NoTask, failed |-> {}]

ExtInit ==
    /\ KeyInit
    /\ SimpleInit
    /\ IconInit
    /\ CallerInit
    /\ RaceInit
    /\ QueueInit

InitCB ==
    /\ now = StartTime
    /\ CBInit
    /\ CacheInit
    /\ ThreadInit
    /\ ExtInit

NextCB ==
    \/ CBTick
    \/ RecordFailure
    \/ RecordSuccess
    \/ \E probe \in BOOLEAN : AllowRequest(probe)

SpecCB == InitCB /\ [][NextCB]_vars

SpecThreads == InitCB /\ [][NextThreads]_vars

\* a key that fills the table is stored once
Fill(key) ==
    /\ key \notin DOMAIN last_set
    /\ Set(key, "A", expiration, "ok")

Init ==
    /\ now = StartTime
    /\ CBInit
    /\ CacheInit
    /\ ThreadInit
    /\ ExtInit

\* CacheStorage called directly: get and set of key 1, the other keys filling
\* the table; a disk write that fails leaves the old file
Next ==
    \/ Tick
    \/ \E key \in ProbeKeys, r \in DiskReadOutcomes : Get(key, r)
    \/ \E key \in ProbeKeys, value \in Values, ttl \in TTLs,
          w \in {"ok", "open_fails"} : Set(key, value, ttl, w)
    \/ \E key \in FillerKeys : Fill(key)

Spec == Init /\ [][Next]_vars

\* CacheStorage behind the wrapper: calls that hash to key 1, the other keys
\* filling the table

NextWrapper ==
    \/ Tick
    \/ \E key \in ProbeKeys, r \in DiskReadOutcomes, out \in OpOutcomes,
          w \in DiskWriteOutcomes : Call(key, r, out, w)
    \/ \E key \in FillerKeys : Fill(key)

SpecWrapper == Init /\ [][NextWrapper]_vars

\* the wrapper and the breaker that CacheStorage.__init__ creates (line 68):
\* calls of the wrapper, and calls of the breaker's methods by other code
NextGated ==
    \/ Tick
    \/ RecordFailure
    \/ RecordSuccess
    \/ \E probe \in BOOLEAN : AllowRequest(probe)
    \/ \E key \in ProbeKeys, r \in DiskReadOutcomes, out \in OpOutcomes :
          Call(key, r, out, "ok")

SpecGated == Init /\ [][NextGated]_vars

\* The cache directory is in the system's temporary directory (line 59) and
\* outlives the process: at construction it can hold files of an earlier run,
\* here a file of key 1 that does not unpickle, or one written under an
\* earlier cache_version.
previous_version == "0.9"

LeftOverFiles ==
    {Corrupt(StartTime),
     [File("A", StartTime + expiration, StartTime) EXCEPT !.version = previous_version]}

InitLeftOver ==
    /\ now = StartTime
    /\ CBInit
    /\ local_cache = EmptyTable
    /\ disk \in {[key \in ProbeKeys |-> f] : f \in LeftOverFiles}
    /\ access_counts = EmptyTable
    /\ frequently_accessed = {}
    /\ last = NoCall
    /\ pending = NoPending
    /\ last_set = EmptyTable
    /\ ThreadInit
    /\ ExtInit

\* get and set of key 1 over the files left; opening a file does not fail here
NextLeftOver ==
    \/ Tick
    \/ \E key \in ProbeKeys : Get(key, "ok")
    \/ \E key \in ProbeKeys, value \in Values, ttl \in TTLs,
          w \in DiskWriteOutcomes : Set(key, value, ttl, w)
    \/ \E key \in FillerKeys : Fill(key)

SpecLeftOver == InitLeftOver /\ [][NextLeftOver]_vars

\* the key that a call with stream=True hashes to: `stream:True' is one of the
\* key parts of lines 218-221, and the wrapper reads the flag nowhere else
StreamKeys == {MemCap}

\* calls of the wrapped operation with stream=True; the operation returns a
\* streaming Response (a value Python takes for true, "A") or raises
NextStream ==
    \/ Tick
    \/ \E key \in StreamKeys, r \in DiskReadOutcomes, out \in {"A", Raise},
          w \in DiskWriteOutcomes : Call(key, r, out, w)
    \/ \E key \in FillerKeys \ StreamKeys : Fill(key)

SpecStream == Init /\ [][NextStream]_vars

\* get_module_recommendations, src/utils.py lines 499-574: a failure of the
\* upstream call is caught at line 572 and the function returns a dict
\* {"error": ...}, as it does at lines 542 and 546; it raises nothing
UpstreamError == "Error"

RecommendationOutcomes == {"A", UpstreamError}

\* a call of get_module_recommendations through the wrapper (stream=False);
\* the function has an outcome only when the wrapper invokes it (line 230)
RecommendationCall(key, r, out, w) ==
    LET g == Lookup(local_cache, disk, key, now, r) IN
    Call(key, r, IF g.raised \/ IsHit(g.ret) THEN Raise ELSE out, w)

NextUpstream ==
    \/ Tick
    \/ \E key \in ProbeKeys, r \in DiskReadOutcomes, out \in RecommendationOutcomes,
          w \in DiskWriteOutcomes : RecommendationCall(key, r, out, w)
    \/ \E key \in FillerKeys : Fill(key)

SpecUpstream == Init /\ [][NextUpstream]_vars

---------------------------------------------------------------------------
(***************************************************************************)
(* The maintenance thread, run_maintenance (lines 80-88): sleep            *)
(* warm_cache_interval, _warm_frequent_keys, _cleanup_old_entries, and     *)
(* again; an exception that leaves a sweep is logged, the thread sleeps    *)
(* error_delay and goes on.  The durations of the source (3600 s, 3600 s,  *)
(* 86400 s, 60 s) are taken small, in the same order.                      *)
(*   maint.pc    "sleep", "warm", "cleanup", "error_sleep", "blocked"      *)
(*               (waiting for a lock that is never released), "dead"       *)
(*   maint.since the time the current sleep began at                       *)
(*   maint.exc   the exception that last left a sweep                      *)
(*   maint.ticks the number of sweeps begun                                *)
(***************************************************************************)
\* line 61 (3600 s)
warm_cache_interval == 2

\* line 65 (3600 s)
cleanup_interval == 2

\* lines 184 and 197 (86400 s)
retention == 3

\* line 88 (60 s)
error_delay == 1

\* how far the clock runs beside the maintenance thread
MaintTicks == 5

\* the exceptions that can leave a sweep
MaintFaults == {"MemoryError", "RuntimeError"}

\* a handler that names OSError only
CaughtByLoop_OSError(exc) == exc = "OSError"

\* line 86: except Exception
CaughtByLoop(exc) == exc \in {"OSError", "MemoryError", "RuntimeError"}

\* line 83: time.sleep(self.warm_cache_interval) returns
MaintWake ==
    /\ maint.pc = "sleep"
    /\ now - maint.since >= warm_cache_interval
    /\ maint' = [maint EXCEPT !.pc = "warm", !.ticks = @ + 1]
    /\ UNCHANGED <<now, th, lock, last_cleanup>>
    /\ UNCHANGED cbVars
    /\ UNCHANGED cacheVars
    /\ UNCHANGED extVars

\* _warm_frequent_keys, lines 162-172: with no frequent key the loop body does
\* not run; with one, self.get(key) waits at line 124 for self.lock, which
\* this thread took at line 164 and which is not reentrant
MaintWarm ==
    /\ maint.pc = "warm"
    /\ lock = "free"
    /\ IF frequently_accessed = {}
       THEN /\ maint' = [maint EXCEPT !.pc = "cleanup"]
            /\ lock' = lock
       ELSE /\ maint' = [maint EXCEPT !.pc = "blocked"]
            /\ lock' = "maintenance"
    /\ UNCHANGED <<now, th, last_cleanup>>
    /\ UNCHANGED cbVars
    /\ UNCHANGED cacheVars
    /\ UNCHANGED extVars

\* lines 182-185: the access records not older than the retention
RecentCounts(ac, t) ==
    [k \in {j \in DOMAIN ac : t - ac[j].last_access < retention} |-> ac[k]]

\* a cleanup that leaves the frequently-accessed set as it was
FrequentOf_Stale(ac) == frequently_accessed

\* lines 188-191
FrequentOf(ac) == {k \in DOMAIN ac : ac[k].count >= access_threshold}

\* what os.listdir of the cache directory does (lines 194-200)
ListingOutcomes == {"ok", "fails"}

\* lines 195-198: the files created more than the retention ago are removed
SweepDisk(dk, t, listing) ==
    IF listing = "fails" THEN dk
    ELSE [k \in {j \in DOMAIN dk : ~(dk[j].ctime < t - retention)} |-> dk[k]]

\* _cleanup_old_entries, lines 174-202
MaintCleanup(listing) ==
    /\ maint.pc = "cleanup"
    /\ lock = "free"
    /\ IF now - last_cleanup < cleanup_interval
       THEN /\ listing = "ok"     \* not used
            /\ UNCHANGED <<access_counts, frequently_accessed, disk, last_cleanup>>
       ELSE /\ access_counts' = RecentCounts(access_counts, now)
            /\ frequently_accessed' = FrequentOf(RecentCounts(access_counts, now))
            /\ disk' = SweepDisk(disk, now, listing)
            /\ last_cleanup' = now
    /\ maint' = [maint EXCEPT !.pc = "sleep", !.since = now]
    /\ UNCHANGED <<now, th, lock, local_cache, last, pending, last_set>>
    /\ UNCHANGED cbVars
    /\ UNCHANGED extVars

\* an exception leaves the sweep that is running; lines 86-88
MaintRaise(exc) ==
    /\ maint.pc \in {"warm", "cleanup"}
    /\ lock = "free"
    /\ maint' = [maint EXCEPT !.pc = IF CaughtByLoop(exc) THEN "error_sleep" ELSE "dead",
                              !.since = now, !.exc = exc]
    /\ UNCHANGED <<now, th, lock, last_cleanup>>
    /\ UNCHANGED cbVars
    /\ UNCHANGED cacheVars
    /\ UNCHANGED extVars

\* line 88: time.sleep(60) returns, and the loop goes round to line 83
MaintRetry ==
    /\ maint.pc = "error_sleep"
    /\ now - maint.since >= error_delay
    /\ maint' = [maint EXCEPT !.pc = "sleep", !.since = now]
    /\ UNCHANGED <<now, th, lock, last_cleanup>>
    /\ UNCHANGED cbVars
    /\ UNCHANGED cacheVars
    /\ UNCHANGED extVars

\* time passes
MaintTick ==
    /\ now < StartTime + MaintTicks
    /\ now' = now + 1
    /\ last' = NoCall
    /\ UNCHANGED <<local_cache, disk, access_counts, frequently_accessed, pending,
                   last_set>>
    /\ UNCHANGED cbVars
    /\ UNCHANGED threadVars
    /\ UNCHANGED extVars

\* a call of the wrapper by a request thread; get and set take self.lock
RequestCall(key) ==
    /\ lock = "free"
    /\ \E out \in {"A", Raise} : Call(key, "ok", out, "ok")

NextMaint ==
    \/ MaintTick
    \/ MaintWake
    \/ MaintWarm
    \/ \E listing \in ListingOutcomes : MaintCleanup(listing)
    \/ \E exc \in MaintFaults : MaintRaise(exc)
    \/ MaintRetry
    \/ \E key \in ProbeKeys : RequestCall(key)

\* time passes, and a sleep that is over returns
SpecMaint ==
    /\ Init
    /\ [][NextMaint]_vars
    /\ WF_vars(MaintTick)
    /\ WF_vars(MaintWake)
    /\ WF_vars(MaintRetry)

---------------------------------------------------------------------------
(***************************************************************************)
(* The cache key of a call, as the two decorators derive it (lines 217-221 *)
(* of cache_with_redis, lines 338-343 of cache_response).  A call has a    *)
(* list of positional arguments and keyword arguments, which Python hands  *)
(* to the wrapper as a dict in the order the caller wrote them.            *)
(***************************************************************************)

\* the longest list of positional arguments
MaxArgs == 2

\* the argument values: the string "a", the number 1 and the string "1"
ArgValues == {[type |-> "str", text |-> "a"], [type |-> "int", text |-> "1"],
              [type |-> "str", text |-> "1"]}

\* str(arg), and {v} in an f-string
Str(v) == v.text

\* the keyword names, in the order Python's < puts them
KwNames == <<"industry", "stream">>

Rank(name) == CHOOSE i \in 1..Len(KwNames) : KwNames[i] = name

Range(seq) == {seq[i] : i \in 1..Len(seq)}

ArgLists == UNION {[1..n -> ArgValues] : n \in 0..MaxArgs}

\* kwargs.items(): name and value pairs, no name twice, in call order
ItemLists ==
    UNION {{kw \in [1..n -> [name : Range(KwNames), value : ArgValues]] :
               \A i, j \in 1..n : i # j => kw[i].name # kw[j].name} :
           n \in 0..Len(KwNames)}

\* the same pairs in any order
Reorderings(items) ==
    {kw \in [1..Len(items) -> Range(items)] : Range(kw) = Range(items)}

\* the pairs taken in the order the caller wrote them
sorted_CallOrder(items) == items

\* sorted(kwargs.items()): the pairs in ascending order of their names
sorted(items) ==
    CHOOSE kw \in Reorderings(items) :
        \A i \in 1..(Len(kw) - 1) : Rank(kw[i].name) < Rank(kw[i + 1].name)

\* "|".join(key_parts)
RECURSIVE join(_)
join(parts) ==
    IF Len(parts) = 0 THEN ""
    ELSE IF Len(parts) = 1 THEN parts[1]
    ELSE parts[1] \o "|" \o join(Tail(parts))

\* hashlib.md5(key_string.encode()).hexdigest(): a function of the string
md5(key_string) == <<"md5", key_string>>

\* the decorators, and what each puts at the head of key_parts: cache_response
\* the name of the decorated function (line 339), here "func"
Decorators == {"cache_with_redis", "cache_response"}

Head_parts(decorator) ==
    IF decorator = "cache_response" THEN <<"func">> ELSE <<>>

\* lines 218-219 and 339-341
key_parts(decorator, args, items) ==
    Head_parts(decorator)
    \o [i \in 1..Len(args) |-> Str(args[i])]
    \o [i \in 1..Len(items) |-> sorted(items)[i].name \o ":" \o Str(sorted(items)[i].value)]

\* lines 220-221 and 342-343
cache_key(decorator, args, items) == md5(join(key_parts(decorator, args, items)))

\* a first call of a decorated function
DeriveKey(decorator, args, items) ==
    /\ key_calls = <<>>
    /\ key_calls' = <<[decorator |-> decorator, args |-> args, kwargs |-> items,
                       key |-> cache_key(decorator, args, items)]>>
    /\ UNCHANGED <<now>>
    /\ UNCHANGED cbVars
    /\ UNCHANGED cacheVars
    /\ UNCHANGED threadVars
    /\ UNCHANGED <<simpleVars, iconVars, callerVars,
                   raceVars, queueVars>>

\* a second call of it with the same arguments, the keyword arguments written
\* in any order
DeriveKeyAgain(items) ==
    /\ Len(key_calls) = 1
    /\ items \in Reorderings(key_calls[1].kwargs)
    /\ key_calls' = Append(key_calls,
                           [key_calls[1] EXCEPT !.kwargs = items,
                               !.key = cache_key(key_calls[1].decorator,
                                                 key_calls[1].args, items)])
    /\ UNCHANGED <<now>>
    /\ UNCHANGED cbVars
    /\ UNCHANGED cacheVars
    /\ UNCHANGED threadVars
    /\ UNCHANGED <<simpleVars, iconVars, callerVars,
                   raceVars, queueVars>>

NextKeys ==
    \/ \E decorator \in Decorators, args \in ArgLists, items \in ItemLists :
           DeriveKey(decorator, args, items)
    \/ \E items \in ItemLists : DeriveKeyAgain(items)

\* the argument strings of two calls that are compared: a plain string, one
\* that holds the "|" of line 220 and one that holds the ":" of line 219
DelimValues == {[type |-> "str", text |-> "a"], [type |-> "str", text |-> "a|a"],
                [type |-> "str", text |-> "industry:a"]}

DelimArgLists == UNION {[1..n -> DelimValues] : n \in 0..MaxArgs}

\* no keyword argument, or one
DelimItemLists ==
    {<<>>} \cup {<<[name |-> name, value |-> v]>> : name \in Range(KwNames), v \in DelimValues}

\* lines 220 and 342: the string that is hashed
key_string(decorator, args, items) == join(key_parts(decorator, args, items))

\* a second call of the decorated function, with any arguments
DeriveKeyOther(args, items) ==
    /\ Len(key_calls) = 1
    /\ key_calls' = Append(key_calls,
                           [decorator |-> key_calls[1].decorator, args |-> args,
                            kwargs |-> items,
                            key |-> cache_key(key_calls[1].decorator, args, items)])
    /\ UNCHANGED <<now>>
    /\ UNCHANGED cbVars
    /\ UNCHANGED cacheVars
    /\ UNCHANGED threadVars
    /\ UNCHANGED <<simpleVars, iconVars, callerVars,
                   raceVars, queueVars>>

\* two calls of one decorated function, their arguments strings
NextKeyPairs ==
    \/ \E decorator \in Decorators, args \in DelimArgLists, items \in DelimItemLists :
           DeriveKey(decorator, args, items)
    \/ \E args \in DelimArgLists, items \in DelimItemLists : DeriveKeyOther(args, items)

SpecKeyPairs == Init /\ [][NextKeyPairs]_vars

SpecKeys == Init /\ [][NextKeys]_vars

---------------------------------------------------------------------------
(***************************************************************************)
(* SimpleCache (lines 249-328): a memory table of (value, expires) pairs   *)
(* and one file per key.  get reads the clock at line 262; when it         *)
(* restores an entry from its file it calls set, which reads the clock     *)
(* again at line 298, `delay' later.  sc_used lists the keys of the table  *)
(* in the order of their last use (a set, or a get that returned the       *)
(* value); the code keeps no such order.                                   *)
(***************************************************************************)

\* SimpleCache.max_size (1000 by default) and default_expiration (3600 s)
max_size == 2

default_expiration == 2

\* how far the clock runs, and the longest time between the two clock
\* readings of a get that restores
SimpleTicks == 2

MaxDelay == 1

SimpleKeys == 1..(max_size + 1)

\* the expiration argument of set: 0 stands for None
Expirations == {0, 1}

NoRestore == 0

\* self.cache is a dict: its items are kept in the order the keys were put in
CacheKeys(c) == {c[i].key : i \in 1..Len(c)}

Entry(c, key) == c[CHOOSE i \in 1..Len(c) : c[i].key = key]

\* del self.cache[key]
Del(c, key) == SelectSeq(c, LAMBDA e : e.key # key)

\* self.cache[key] = (value, expires)
Assign(c, key, value, expires) ==
    LET e == [key |-> key, value |-> value, expires |-> expires] IN
    IF key \in CacheKeys(c)
    THEN [i \in 1..Len(c) |-> IF c[i].key = key THEN e ELSE c[i]]
    ELSE Append(c, e)

\* line 294
SimpleFull(c) == Len(c) >= max_size

\* key becomes the most recently used
Touch(used, key) == Append(SelectSeq(used, LAMBDA k : k # key), key)

Forget(used, c) == SelectSeq(used, LAMBDA k : k \in CacheKeys(c))

\* the entry used least recently
oldest_key_LRU(c) == IF Forget(sc_used, c) = <<>> THEN NoKey ELSE Head(Forget(sc_used, c))

\* line 295: min over the items by x[1][1], the expiry time; of the entries
\* that expire first, the one met first
oldest_key(c) ==
    c[CHOOSE i \in 1..Len(c) :
          /\ \A j \in 1..Len(c) : c[i].expires <= c[j].expires
          /\ \A j \in 1..(i - 1) : c[j].expires > c[i].expires].key

\* lines 294-296
Evict(c) == IF SimpleFull(c) THEN Del(c, oldest_key(c)) ELSE c

\* line 298: remaining_time if remaining_time else (expiration or default)
Lifetime(exp_arg, remaining_time) ==
    IF remaining_time # NoRestore THEN remaining_time
    ELSE IF exp_arg # 0 THEN exp_arg ELSE default_expiration

\* lines 302-310: the file is written; an exception is logged
SimpleStoreDisk(files, key, value, expires, w) ==
    CASE w = "ok" -> Put(files, key, [readable |-> TRUE, value |-> value,
                                      expires |-> expires])
      [] w = "dump_fails" -> Put(files, key, [readable |-> FALSE, value |-> None,
                                              expires |-> 0])
      [] OTHER -> files

\* SimpleCache.set, lines 290-310, run at time t
SimpleStore(c, files, key, value, exp_arg, remaining_time, t, w) ==
    LET expires == t + Lifetime(exp_arg, remaining_time) IN
    [cache |-> Assign(Evict(c), key, value, expires),
     files |-> SimpleStoreDisk(files, key, value, expires, w),
     expires |-> expires,
     evicted |-> IF SimpleFull(c) THEN oldest_key(c) ELSE NoKey]

\* SimpleCache.get, lines 260-288
SimpleGet(key, r, delay, w) ==
    LET hit == key \in CacheKeys(cache) /\ Entry(cache, key).expires > now
        c1  == IF key \in CacheKeys(cache) /\ ~hit THEN Del(cache, key) ELSE cache
        unused == r = "ok" /\ delay = 0 /\ w = "ok"
    IN
    /\ now + delay <= StartTime + SimpleTicks
    /\ IF hit THEN
           /\ unused
           /\ cache' = cache
           /\ cache_files' = cache_files
           /\ sc_used' = Touch(sc_used, key)
           /\ sc_last' = [NoSimpleCall EXCEPT !.op = "get", !.key = key,
                          !.ret = Entry(cache, key).value, !.src = "memory",
                          !.exp = Entry(cache, key).expires]
       ELSE IF key \notin DOMAIN cache_files THEN
           /\ unused
           /\ cache' = c1
           /\ cache_files' = cache_files
           /\ sc_used' = Forget(sc_used, c1)
           /\ sc_last' = [NoSimpleCall EXCEPT !.op = "get", !.key = key, !.src = "miss"]
       ELSE IF r = "fails" \/ ~cache_files[key].readable THEN
           /\ delay = 0 /\ w = "ok"
           /\ cache' = c1
           /\ cache_files' = cache_files
           /\ sc_used' = Forget(sc_used, c1)
           /\ sc_last' = [NoSimpleCall EXCEPT !.op = "get", !.key = key, !.src = "error"]
       ELSE IF cache_files[key].expires > now THEN
           LET st == SimpleStore(c1, cache_files, key, cache_files[key].value, 0,
                                 cache_files[key].expires - now, now + delay, w) IN
           /\ r = "ok"
           /\ cache' = st.cache
           /\ cache_files' = st.files
           /\ sc_used' = Touch(Forget(sc_used, st.cache), key)
           /\ sc_last' = [NoSimpleCall EXCEPT !.op = "get", !.key = key,
                          !.ret = cache_files[key].value, !.src = "disk",
                          !.exp = cache_files[key].expires,
                          !.full = SimpleFull(c1), !.evicted = st.evicted,
                          !.lru = oldest_key_LRU(c1), !.delay = delay]
       ELSE
           /\ unused
           /\ cache' = c1
           /\ cache_files' = Drop(cache_files, key)
           /\ sc_used' = Forget(sc_used, c1)
           /\ sc_last' = [NoSimpleCall EXCEPT !.op = "get", !.key = key, !.src = "miss"]
    /\ now' = now + delay
    /\ UNCHANGED cbVars
    /\ UNCHANGED cacheVars
    /\ UNCHANGED threadVars
    /\ UNCHANGED <<keyVars, iconVars, callerVars,
                   raceVars, queueVars>>

\* SimpleCache.set called with a value and an expiration, lines 290-310
SimpleSet(key, value, exp_arg, w) ==
    LET st == SimpleStore(cache, cache_files, key, value, exp_arg, NoRestore, now, w) IN
    /\ cache' = st.cache
    /\ cache_files' = st.files
    /\ sc_used' = Touch(Forget(sc_used, st.cache), key)
    /\ sc_last' = [NoSimpleCall EXCEPT !.op = "set", !.key = key,
                   !.exp = st.expires, !.full = SimpleFull(cache),
                   !.evicted = st.evicted, !.lru = oldest_key_LRU(cache)]
    /\ UNCHANGED now
    /\ UNCHANGED cbVars
    /\ UNCHANGED cacheVars
    /\ UNCHANGED threadVars
    /\ UNCHANGED <<keyVars, iconVars, callerVars,
                   raceVars, queueVars>>

\* time passes between two calls
SimpleTick ==
    /\ now < StartTime + SimpleTicks
    /\ now' = now + 1
    /\ sc_last' = NoSimpleCall
    /\ UNCHANGED <<cache, cache_files, sc_used>>
    /\ UNCHANGED cbVars
    /\ UNCHANGED cacheVars
    /\ UNCHANGED threadVars
    /\ UNCHANGED <<keyVars, iconVars, callerVars,
                   raceVars, queueVars>>

\* get and set of key 1 with every outcome of the disk; the other keys are
\* stored with the default expiration to fill the table
NextSimple ==
    \/ SimpleTick
    \/ \E key \in ProbeKeys, r \in DiskReadOutcomes, delay \in 0..MaxDelay,
          w \in DiskWriteOutcomes : SimpleGet(key, r, delay, w)
    \/ \E key \in ProbeKeys, exp_arg \in Expirations, w \in DiskWriteOutcomes :
           SimpleSet(key, "A", exp_arg, w)
    \/ \E key \in SimpleKeys \ ProbeKeys : SimpleSet(key, "A", 0, "ok")

SpecSimple == Init /\ [][NextSimple]_vars

---------------------------------------------------------------------------
(***************************************************************************)
(* The icon caches: icon_cache.IconCache (src/icon_cache.py), Redis and    *)
(* one JSON file per module, and utils.IconCache (src/utils.py lines       *)
(* 56-120), Redis and a memory table.  Each call of the Redis client       *)
(* returns or raises.  icon_last.cleared is the set of modules cleared     *)
(* since they were last set (the code keeps no such set).                  *)
(***************************************************************************)

\* CACHE_TIMEOUT (3600 s in both files), and how far the clock runs
CACHE_TIMEOUT == 2

IconTicks == 2

\* the number of calls of the icon caches in a run
MaxIconCalls == 3

Modules == {"m1", "m2"}

\* the module whose calls take every outcome, and the only one
\* utils.IconCache is called with
PathModules == {"m1"}

\* clear() without a module name
AllModules == "all"

\* what a call of the Redis client does
RedisOutcomes == {"ok", "ConnectionError", "TimeoutError"}

\* a handler that names the connection error only
RedisCaught_ConnectionOnly(exc) == exc = "ConnectionError"

\* except Exception: icon_cache.py lines 65, 97, 116, 137; utils.py lines 75,
\* 99, 114
RedisCaught(exc) == exc \in {"ConnectionError", "TimeoutError"}

\* icon_cache.py line 46 and utils.py line 63
IconKey(module) == <<"icon", module>>

PathKey(module) == <<"icon_cache", module>>

\* redis_client.get, setex, keys(prefix:*), delete
RedisGet(store, key, t) ==
    IF key \in DOMAIN store /\ store[key].expires > t THEN store[key].data ELSE None

RedisSetex(store, key, ttl, data, t) ==
    Put(store, key, [data |-> data, expires |-> t + ttl])

RedisKeys(store, prefix, t) ==
    {k \in DOMAIN store : k[1] = prefix /\ store[k].expires > t}

RedisDelete(store, ks) == [k \in DOMAIN store \ ks |-> store[k]]

\* icon_cache.py lines 70-77: the file's data, if it can be read and is fresh
FileData(fs, key, t, fr) ==
    IF /\ key \in DOMAIN fs
       /\ fr = "ok"
       /\ fs[key].readable
       /\ fs[key].timestamp + CACHE_TIMEOUT > t
    THEN fs[key].data
    ELSE None

\* icon_cache.py lines 101-106
WriteFile(fs, key, data, t, fw) ==
    CASE fw = "ok" -> Put(fs, key, [readable |-> TRUE, data |-> data, timestamp |-> t])
      [] fw = "dump_fails" -> Put(fs, key, [readable |-> FALSE, data |-> None,
                                            timestamp |-> 0])
      [] OTHER -> fs

\* icon_cache.IconCache.get, lines 55-79
IconGet(module, rr, fr) ==
    LET key == IconKey(module)
        escapes == redis_client /\ rr # "ok" /\ ~RedisCaught(rr)
        cached_data == IF redis_client /\ rr = "ok" THEN RedisGet(redis, key, now)
                       ELSE None
        data == FileData(icon_fs, key, now, fr)
    IN
    /\ icon_last.calls < MaxIconCalls
    /\ ~redis_client => rr = "ok"
    /\ fr # "ok" => (~escapes /\ cached_data = None /\ key \in DOMAIN icon_fs)
    /\ icon_last' = [NoIconCall EXCEPT
                        !.calls = icon_last.calls + 1,
                        !.op = "get", !.cls = "icon_cache", !.module = module,
                        !.fr = fr,
                        !.redis_raised = (redis_client /\ rr # "ok"),
                        !.raised = escapes,
                        !.ret = IF escapes THEN None
                                ELSE IF cached_data # None THEN cached_data ELSE data,
                        !.src = IF escapes THEN "raise"
                                ELSE IF cached_data # None THEN "redis"
                                ELSE IF data # None THEN "fs" ELSE "miss",
                        !.cleared = icon_last.cleared]
    /\ UNCHANGED <<now, redis, redis_client, USE_REDIS, icon_fs, memory_cache>>
    /\ UNCHANGED cbVars
    /\ UNCHANGED cacheVars
    /\ UNCHANGED threadVars
    /\ UNCHANGED <<keyVars, simpleVars, callerVars,
                   raceVars, queueVars>>

\* icon_cache.IconCache.set, lines 81-106
IconSet(module, data, rr, fw) ==
    LET key == IconKey(module)
        escapes == redis_client /\ rr # "ok" /\ ~RedisCaught(rr)
    IN
    /\ icon_last.calls < MaxIconCalls
    /\ ~redis_client => rr = "ok"
    /\ escapes => fw = "ok"
    /\ redis' = IF redis_client /\ rr = "ok"
                THEN RedisSetex(redis, key, CACHE_TIMEOUT, data, now) ELSE redis
    /\ icon_fs' = IF escapes THEN icon_fs ELSE WriteFile(icon_fs, key, data, now, fw)
    /\ icon_last' = [NoIconCall EXCEPT
                        !.calls = icon_last.calls + 1,
                        !.op = "set", !.cls = "icon_cache", !.module = module,
                        !.redis_raised = (redis_client /\ rr # "ok"),
                        !.raised = escapes, !.ret = data, !.fw = fw,
                        !.cleared = icon_last.cleared \ {module}]
    /\ UNCHANGED <<now, redis_client, USE_REDIS, memory_cache>>
    /\ UNCHANGED cbVars
    /\ UNCHANGED cacheVars
    /\ UNCHANGED threadVars
    /\ UNCHANGED <<keyVars, simpleVars, callerVars,
                   raceVars, queueVars>>

\* lines 110-120: the Redis keys clear will delete
cache_keys(target, rk) ==
    IF target # AllModules THEN {IconKey(target)}
    ELSE IF redis_client /\ rk = "ok" THEN RedisKeys(redis, "icon", now)
    ELSE {}

\* lines 122-130: the files clear tries to remove
ClearedFiles(target) == IF target = AllModules THEN DOMAIN icon_fs ELSE {}

\* icon_cache.IconCache.clear, lines 108-138; the deletes of `undeleted' and
\* the removes of `unremoved' raise
IconClear(target, rk, undeleted, unremoved) ==
    LET escapes == target = AllModules /\ redis_client /\ rk # "ok" /\ ~RedisCaught(rk) IN
    /\ icon_last.calls < MaxIconCalls
    /\ (target # AllModules \/ ~redis_client) => rk = "ok"
    /\ undeleted \subseteq (IF redis_client /\ ~escapes THEN cache_keys(target, rk)
                            ELSE {})
    /\ unremoved \subseteq (IF escapes THEN {} ELSE ClearedFiles(target))
    /\ icon_fs' = IF escapes THEN icon_fs
                  ELSE [k \in (DOMAIN icon_fs \ ClearedFiles(target)) \cup unremoved
                            |-> icon_fs[k]]
    /\ redis' = IF redis_client /\ ~escapes
                THEN RedisDelete(redis, cache_keys(target, rk) \ undeleted)
                ELSE redis
    /\ icon_last' = [NoIconCall EXCEPT
                        !.calls = icon_last.calls + 1,
                        !.op = "clear", !.cls = "icon_cache", !.module = target,
                        !.redis_raised = (redis_client /\ (rk # "ok" \/ undeleted # {})),
                        !.raised = escapes,
                        !.cleared = IF escapes THEN icon_last.cleared
                                    ELSE IF target = AllModules THEN Modules
                                    ELSE icon_last.cleared \cup {target}]
    /\ UNCHANGED <<now, redis_client, USE_REDIS, memory_cache>>
    /\ UNCHANGED cbVars
    /\ UNCHANGED cacheVars
    /\ UNCHANGED threadVars
    /\ UNCHANGED <<keyVars, simpleVars, callerVars,
                   raceVars, queueVars>>

\* utils.py lines 78-86: the memory entry, if it is fresh
MemoryPath(mc, key, t) ==
    IF key \in DOMAIN mc /\ t - mc[key].timestamp < CACHE_TIMEOUT
    THEN mc[key].path ELSE None

\* utils.py lines 94-104: set_icon returns at line 98 when setex returned
WritesMemory(rr) == ~USE_REDIS \/ rr # "ok"

\* utils.IconCache.get_icon, lines 65-88
GetIcon(module, rr) ==
    LET key == PathKey(module)
        escapes == USE_REDIS /\ rr # "ok" /\ ~RedisCaught(rr)
        cached_path == IF USE_REDIS /\ rr = "ok" THEN RedisGet(redis, key, now)
                       ELSE None
        path == MemoryPath(memory_cache, key, now)
    IN
    /\ icon_last.calls < MaxIconCalls
    /\ ~USE_REDIS => rr = "ok"
    /\ memory_cache' = IF ~escapes /\ cached_path = None /\ key \in DOMAIN memory_cache
                          /\ path = None
                       THEN Drop(memory_cache, key) ELSE memory_cache
    /\ icon_last' = [NoIconCall EXCEPT
                        !.calls = icon_last.calls + 1,
                        !.op = "get", !.cls = "utils", !.module = module,
                        !.redis_raised = (USE_REDIS /\ rr # "ok"),
                        !.raised = escapes,
                        !.ret = IF escapes THEN None
                                ELSE IF cached_path # None THEN cached_path ELSE path,
                        !.src = IF escapes THEN "raise"
                                ELSE IF cached_path # None THEN "redis"
                                ELSE IF path # None THEN "memory" ELSE "miss",
                        !.cleared = icon_last.cleared]
    /\ UNCHANGED <<now, redis, redis_client, USE_REDIS, icon_fs>>
    /\ UNCHANGED cbVars
    /\ UNCHANGED cacheVars
    /\ UNCHANGED threadVars
    /\ UNCHANGED <<keyVars, simpleVars, callerVars,
                   raceVars, queueVars>>

\* utils.IconCache.set_icon, lines 90-104
SetIcon(module, icon_path, rr) ==
    LET key == PathKey(module)
        escapes == USE_REDIS /\ rr # "ok" /\ ~RedisCaught(rr)
    IN
    /\ icon_last.calls < MaxIconCalls
    /\ ~USE_REDIS => rr = "ok"
    /\ redis' = IF USE_REDIS /\ rr = "ok"
                THEN RedisSetex(redis, key, CACHE_TIMEOUT, icon_path, now) ELSE redis
    /\ memory_cache' = IF ~escapes /\ WritesMemory(rr)
                       THEN Put(memory_cache, key, [path |-> icon_path, timestamp |-> now])
                       ELSE memory_cache
    /\ icon_last' = [NoIconCall EXCEPT
                        !.calls = icon_last.calls + 1,
                        !.op = "set", !.cls = "utils", !.module = module,
                        !.redis_raised = (USE_REDIS /\ rr # "ok"),
                        !.raised = escapes, !.ret = icon_path,
                        !.cleared = icon_last.cleared]
    /\ UNCHANGED <<now, redis_client, USE_REDIS, icon_fs>>
    /\ UNCHANGED cbVars
    /\ UNCHANGED cacheVars
    /\ UNCHANGED threadVars
    /\ UNCHANGED <<keyVars, simpleVars, callerVars,
                   raceVars, queueVars>>

\* time passes between two calls
IconTick ==
    /\ now < StartTime + IconTicks
    /\ now' = now + 1
    /\ icon_last' = [NoIconCall EXCEPT !.cleared = icon_last.cleared,
                                    !.calls = icon_last.calls]
    /\ UNCHANGED <<redis, redis_client, USE_REDIS, icon_fs, memory_cache>>
    /\ UNCHANGED cbVars
    /\ UNCHANGED cacheVars
    /\ UNCHANGED threadVars
    /\ UNCHANGED <<keyVars, simpleVars, callerVars,
                   raceVars, queueVars>>

\* icon_cache.py lines 31-38 and utils.py lines 43-50: each module has or has
\* not connected to Redis
InitIcons ==
    /\ now = StartTime
    /\ CBInit
    /\ CacheInit
    /\ ThreadInit
    /\ KeyInit
    /\ SimpleInit
    /\ CallerInit
    /\ RaceInit
    /\ QueueInit
    /\ IconStores
    /\ redis_client \in BOOLEAN
    /\ USE_REDIS \in BOOLEAN

\* the calls for module m1 take every outcome of Redis and of the file system;
\* the other module is set and got with none failing
NextIcons ==
    \/ IconTick
    \/ \E module \in PathModules, rr \in RedisOutcomes, fr \in DiskReadOutcomes :
           IconGet(module, rr, fr)
    \/ \E module \in PathModules, rr \in RedisOutcomes, fw \in DiskWriteOutcomes :
           IconSet(module, "D", rr, fw)
    \/ \E module \in Modules \ PathModules : IconGet(module, "ok", "ok")
    \/ \E module \in Modules \ PathModules : IconSet(module, "D", "ok", "ok")
    \/ \E target \in Modules \cup {AllModules}, rk \in RedisOutcomes,
          undeleted \in SUBSET {IconKey(m) : m \in Modules},
          unremoved \in SUBSET {IconKey(m) : m \in Modules} :
           IconClear(target, rk, undeleted, unremoved)
    \/ \E module \in PathModules, rr \in RedisOutcomes : GetIcon(module, rr)
    \/ \E module \in PathModules, rr \in RedisOutcomes : SetIcon(module, "P", rr)

SpecIcons == InitIcons /\ [][NextIcons]_vars

---------------------------------------------------------------------------
(***************************************************************************)
(* The wrapper called from two threads with the same arguments.  A call is *)
(* a sequence of steps, and the steps of the threads interleave: the two   *)
(* `with self.lock' blocks of get (lines 124-131, 134-141), the disk       *)
(* lookup (lines 144-154, no lock), the wrapped operation (line 230), the  *)
(* locked memory write of _store_in_all_layers (lines 96-105) and its disk *)
(* write (lines 108-117, no lock).  A locked block runs as one step, when  *)
(* the lock is free.  callers.stores lists the threads in the order of     *)
(* their memory writes (the code keeps no such list).                      *)
(***************************************************************************)

\* the key the arguments of the two calls hash to
SharedKey == CHOOSE k \in ProbeKeys : TRUE

\* what the wrapped operation returns to each thread
ResultFor(t) == IF t = "t1" THEN "A" ELSE "B"

\* line 121 and lines 124-131
CallerTrack(t) ==
    /\ callers.pc[t] = "idle"
    /\ lock = "free"
    /\ access_counts' = Track(access_counts, SharedKey, now)
    /\ frequently_accessed' = Frequent(frequently_accessed,
                                       Track(access_counts, SharedKey, now), SharedKey)
    /\ callers' = [callers EXCEPT !.pc[t] = "memory", !.current_time[t] = now]
    /\ UNCHANGED <<now, local_cache, disk, last, pending, last_set>>
    /\ UNCHANGED cbVars
    /\ UNCHANGED threadVars
    /\ UNCHANGED <<keyVars, simpleVars, iconVars,
                   raceVars, queueVars>>

\* lines 134-141, and line 225 when the entry is returned
CallerMemory(t) ==
    LET held == /\ SharedKey \in DOMAIN local_cache
                /\ Fresh(local_cache[SharedKey].expires, callers.current_time[t])
    IN
    /\ callers.pc[t] = "memory"
    /\ lock = "free"
    /\ IF held
       THEN /\ local_cache' = [local_cache EXCEPT
                                  ![SharedKey].access_time = callers.current_time[t]]
            /\ callers' = [callers EXCEPT
                              !.cached_result[t] = local_cache[SharedKey].value,
                              !.ret[t] = IF IsHit(local_cache[SharedKey].value)
                                         THEN local_cache[SharedKey].value ELSE @,
                              !.pc[t] = IF IsHit(local_cache[SharedKey].value)
                                        THEN "done" ELSE "invoke"]
       ELSE /\ local_cache' = Drop(local_cache, SharedKey)
            /\ callers' = [callers EXCEPT !.pc[t] = "disk"]
    /\ UNCHANGED <<now, disk, access_counts, frequently_accessed, last, pending,
                   last_set>>
    /\ UNCHANGED cbVars
    /\ UNCHANGED threadVars
    /\ UNCHANGED <<keyVars, simpleVars, iconVars,
                   raceVars, queueVars>>

\* lines 144-156, and line 225
CallerDisk(t, r) ==
    LET g == DiskLookup(local_cache, disk, SharedKey, callers.current_time[t], r) IN
    /\ callers.pc[t] = "disk"
    /\ r # "ok" => SharedKey \in DOMAIN disk
    /\ disk' = g.dk
    /\ callers' = [callers EXCEPT
                      !.cached_result[t] = g.ret,
                      !.ret[t] = IF IsHit(g.ret) THEN g.ret ELSE @,
                      !.pc[t] = IF IsHit(g.ret) THEN "done" ELSE "invoke"]
    /\ UNCHANGED <<now, local_cache, access_counts, frequently_accessed, last,
                   pending, last_set>>
    /\ UNCHANGED cbVars
    /\ UNCHANGED threadVars
    /\ UNCHANGED <<keyVars, simpleVars, iconVars,
                   raceVars, queueVars>>

\* line 230: the wrapped operation runs and returns
CallerInvoke(t) ==
    /\ callers.pc[t] = "invoke"
    /\ callers' = [callers EXCEPT !.result[t] = ResultFor(t), !.invoked[t] = TRUE,
                                  !.pc[t] = "store_memory"]
    /\ UNCHANGED now
    /\ UNCHANGED cacheVars
    /\ UNCHANGED cbVars
    /\ UNCHANGED threadVars
    /\ UNCHANGED <<keyVars, simpleVars, iconVars,
                   raceVars, queueVars>>

\* lines 96-105
CallerStoreMemory(t) ==
    /\ callers.pc[t] = "store_memory"
    /\ lock = "free"
    /\ \E victim \in VictimChoices(local_cache) :
           local_cache' = StoreMemory(local_cache, victim, SharedKey,
                                      callers.result[t], expiration, now)
    /\ callers' = [callers EXCEPT !.stores = Append(@, t), !.pc[t] = "store_disk"]
    /\ UNCHANGED <<now, disk, access_counts, frequently_accessed, last, pending,
                   last_set>>
    /\ UNCHANGED cbVars
    /\ UNCHANGED threadVars
    /\ UNCHANGED <<keyVars, simpleVars, iconVars,
                   raceVars, queueVars>>

\* lines 108-117, and the return of line 232
CallerStoreDisk(t, w) ==
    /\ callers.pc[t] = "store_disk"
    /\ disk' = StoreDisk(disk, SharedKey, callers.result[t], expiration, now, w)
    /\ callers' = [callers EXCEPT !.ret[t] = callers.result[t], !.pc[t] = "done"]
    /\ UNCHANGED <<now, local_cache, access_counts, frequently_accessed, last,
                   pending, last_set>>
    /\ UNCHANGED cbVars
    /\ UNCHANGED threadVars
    /\ UNCHANGED <<keyVars, simpleVars, iconVars,
                   raceVars, queueVars>>

\* time passes between the steps
NextCallers ==
    \/ Tick
    \/ \E t \in Threads : CallerTrack(t)
    \/ \E t \in Threads : CallerMemory(t)
    \/ \E t \in Threads, r \in DiskReadOutcomes : CallerDisk(t, r)
    \/ \E t \in Threads : CallerInvoke(t)
    \/ \E t \in Threads : CallerStoreMemory(t)
    \/ \E t \in Threads, w \in DiskWriteOutcomes : CallerStoreDisk(t, w)

SpecCallers == Init /\ [][NextCallers]_vars

---------------------------------------------------------------------------
(***************************************************************************)
(* get and set of CacheStorage called from two threads with the same key.  *)
(* The steps of a call are its locked blocks and, outside the lock, each   *)
(* access to the key's file: in set the memory write (lines 96-105) and    *)
(* the disk write (lines 108-115); in get the tracking (lines 121-131),    *)
(* the memory lookup (lines 134-141), the reading of the file (lines       *)
(* 146-150) and the removal of a file found expired (line 152).  The disk  *)
(* writes succeed.  Kept for the claims: racers.exp, the expiry a thread's *)
(* set wrote to disk, and racers.wrote, the thread that wrote the file     *)
(* last.                                                                   *)
(***************************************************************************)

\* the calls one thread makes
MaxRaceCalls == 2

\* set, lines 96-105: thread t stores its value for the key
RaceStoreMemory(t, ttl) ==
    /\ racers.pc[t] = "idle"
    /\ racers.calls[t] < MaxRaceCalls
    /\ lock = "free"
    /\ \E victim \in VictimChoices(local_cache) :
           local_cache' = StoreMemory(local_cache, victim, SharedKey, ResultFor(t), ttl, now)
    /\ racers' = [racers EXCEPT !.pc[t] = "set_disk", !.op[t] = "set",
                                !.value[t] = ResultFor(t), !.ttl[t] = ttl,
                                !.calls[t] = @ + 1]
    /\ UNCHANGED <<now, disk, access_counts, frequently_accessed, last, pending,
                   last_set>>
    /\ UNCHANGED cbVars
    /\ UNCHANGED threadVars
    /\ UNCHANGED <<keyVars, simpleVars, iconVars, callerVars, queueVars>>

\* set, lines 108-115, and its return
RaceStoreDisk(t) ==
    /\ racers.pc[t] = "set_disk"
    /\ disk' = StoreDisk(disk, SharedKey, racers.value[t], racers.ttl[t], now, "ok")
    /\ racers' = [racers EXCEPT !.pc[t] = "idle", !.exp[t] = now + racers.ttl[t],
                                !.wrote = t]
    /\ UNCHANGED <<now, local_cache, access_counts, frequently_accessed, last,
                   pending, last_set>>
    /\ UNCHANGED cbVars
    /\ UNCHANGED threadVars
    /\ UNCHANGED <<keyVars, simpleVars, iconVars, callerVars, queueVars>>

\* get, line 121 and lines 124-131
RaceTrack(t) ==
    /\ racers.pc[t] = "idle"
    /\ racers.calls[t] < MaxRaceCalls
    /\ lock = "free"
    /\ access_counts' = Track(access_counts, SharedKey, now)
    /\ frequently_accessed' = Frequent(frequently_accessed,
                                       Track(access_counts, SharedKey, now), SharedKey)
    /\ racers' = [racers EXCEPT !.pc[t] = "get_memory", !.op[t] = "get",
                                !.current_time[t] = now, !.calls[t] = @ + 1]
    /\ UNCHANGED <<now, local_cache, disk, last, pending, last_set>>
    /\ UNCHANGED cbVars
    /\ UNCHANGED threadVars
    /\ UNCHANGED <<keyVars, simpleVars, iconVars, callerVars, queueVars>>

\* get, lines 134-141
RaceMemory(t) ==
    LET held == /\ SharedKey \in DOMAIN local_cache
                /\ Fresh(local_cache[SharedKey].expires, racers.current_time[t])
    IN
    /\ racers.pc[t] = "get_memory"
    /\ lock = "free"
    /\ IF held
       THEN /\ local_cache' = [local_cache EXCEPT
                                  ![SharedKey].access_time = racers.current_time[t]]
            /\ racers' = [racers EXCEPT !.pc[t] = "idle",
                                        !.ret[t] = local_cache[SharedKey].value]
       ELSE /\ local_cache' = Drop(local_cache, SharedKey)
            /\ racers' = [racers EXCEPT !.pc[t] = "get_disk"]
    /\ UNCHANGED <<now, disk, access_counts, frequently_accessed, last, pending,
                   last_set>>
    /\ UNCHANGED cbVars
    /\ UNCHANGED threadVars
    /\ UNCHANGED <<keyVars, simpleVars, iconVars, callerVars, queueVars>>

\* get, lines 146-150: the file is looked for and read; a good entry is returned
RaceDiskRead(t) ==
    /\ racers.pc[t] = "get_disk"
    /\ IF SharedKey \notin DOMAIN disk
       THEN racers' = [racers EXCEPT !.pc[t] = "idle", !.ret[t] = None]
       ELSE IF /\ Fresh(disk[SharedKey].expires, racers.current_time[t])
               /\ disk[SharedKey].version = cache_version
       THEN racers' = [racers EXCEPT !.pc[t] = "idle", !.ret[t] = disk[SharedKey].value]
       ELSE racers' = [racers EXCEPT !.pc[t] = "get_remove"]
    /\ UNCHANGED now
    /\ UNCHANGED cacheVars
    /\ UNCHANGED cbVars
    /\ UNCHANGED threadVars
    /\ UNCHANGED <<keyVars, simpleVars, iconVars, callerVars, queueVars>>

\* get, line 152: os.remove(cache_path); with no file there it raises, which
\* line 153 catches; line 156
RaceDiskRemove(t) ==
    /\ racers.pc[t] = "get_remove"
    /\ disk' = Drop(disk, SharedKey)
    /\ racers' = [racers EXCEPT !.pc[t] = "idle", !.ret[t] = None]
    /\ UNCHANGED <<now, local_cache, access_counts, frequently_accessed, last,
                   pending, last_set>>
    /\ UNCHANGED cbVars
    /\ UNCHANGED threadVars
    /\ UNCHANGED <<keyVars, simpleVars, iconVars, callerVars, queueVars>>

\* time passes between the steps
NextRaces ==
    \/ Tick
    \/ \E t \in Threads, ttl \in TTLs : RaceStoreMemory(t, ttl)
    \/ \E t \in Threads : RaceStoreDisk(t)
    \/ \E t \in Threads : RaceTrack(t)
    \/ \E t \in Threads : RaceMemory(t)
    \/ \E t \in Threads : RaceDiskRead(t)
    \/ \E t \in Threads : RaceDiskRemove(t)

SpecRaces == Init /\ [][NextRaces]_vars

---------------------------------------------------------------------------
(***************************************************************************)

(* The image queue of src/utils.py (lines 414-497) and the requests that   *)
(* use it (get_module_recommendations, lines 549-570).  A request clears   *)
(* queue_event, puts one task (module name, callback) per recommended      *)
(* module on image_queue, waits for queue_event or for 10 s, and builds    *)
(* its result from its module_info, the dict its callbacks fill.  The      *)
(* worker thread takes the tasks one by one.  Requests run in threads of   *)
(* their own; each request of Requests is made once.                       *)
(*   requests.pc      "idle", "put", "wait", "done"                        *)
(*   requests.modules the names of the modules parsed from the answer      *)
(*   requests.put     how many of them have been put on the queue          *)
(*   requests.result  the keys of the result's 'urls' and 'images'         *)
(*   requests.ended   what ended the wait: "event" or "timeout"            *)
(*   worker.pc        "get", "check", "process", "signal"                  *)
(*   worker.failed    the tasks whose icon lookup failed MAX_RETRIES times *)
(***************************************************************************)

\* line 545: the modules of an answer, at least one (line 546), no name twice
RequestLists ==
    {ms \in UNION {[1..n -> Modules] : n \in 1..Cardinality(Modules)} :
        \A i, j \in 1..Len(ms) : i # j => ms[i] # ms[j]}

\* lines 550-552: queue_event.clear(), module_info = {}
RequestStart(r, ms) ==
    /\ requests.pc[r] = "idle"
    /\ queue_event' = FALSE
    /\ requests' = [requests EXCEPT !.pc[r] = "put", !.modules[r] = ms,
                                    !.module_info[r] = {}]
    /\ UNCHANGED <<image_queue, processed_items, worker>>
    /\ UNCHANGED now
    /\ UNCHANGED cbVars
    /\ UNCHANGED cacheVars
    /\ UNCHANGED threadVars
    /\ UNCHANGED <<keyVars, simpleVars, iconVars, callerVars, raceVars>>

\* lines 553-558: one turn of the loop; the queue has no size limit (line 414)
RequestPut(r) ==
    /\ requests.pc[r] = "put"
    /\ image_queue' = Append(image_queue,
                             [module |-> requests.modules[r][requests.put[r] + 1],
                              request |-> r])
    /\ requests' = [requests EXCEPT
                       !.put[r] = @ + 1,
                       !.pc[r] = IF requests.put[r] + 1 = Len(requests.modules[r])
                                 THEN "wait" ELSE "put"]
    /\ UNCHANGED <<queue_event, processed_items, worker>>
    /\ UNCHANGED now
    /\ UNCHANGED cbVars
    /\ UNCHANGED cacheVars
    /\ UNCHANGED threadVars
    /\ UNCHANGED <<keyVars, simpleVars, iconVars, callerVars, raceVars>>

\* line 563: queue_event.wait returns at once when the event is set
WaitOver(r) == queue_event

\* lines 563-572: the wait ends, by the event or (timed_out) after 10 s, and the
\* result is built from module_info
RequestWait(r, timed_out) ==
    /\ requests.pc[r] = "wait"
    /\ IF WaitOver(r) THEN ~timed_out ELSE timed_out
    /\ requests' = [requests EXCEPT
                       !.pc[r] = "done",
                       !.ended[r] = IF timed_out THEN "timeout" ELSE "event",
                       !.result[r] = requests.module_info[r]]
    /\ UNCHANGED <<image_queue, queue_event, processed_items, worker>>
    /\ UNCHANGED now
    /\ UNCHANGED cbVars
    /\ UNCHANGED cacheVars
    /\ UNCHANGED threadVars
    /\ UNCHANGED <<keyVars, simpleVars, iconVars, callerVars, raceVars>>

\* lines 460-465: a task is taken from the queue
WorkerGet ==
    /\ worker.pc = "get"
    /\ image_queue # <<>>
    /\ worker' = [worker EXCEPT !.pc = "check", !.task = Head(image_queue)]
    /\ image_queue' = Tail(image_queue)
    /\ UNCHANGED <<queue_event, processed_items, requests>>
    /\ UNCHANGED now
    /\ UNCHANGED cbVars
    /\ UNCHANGED cacheVars
    /\ UNCHANGED threadVars
    /\ UNCHANGED <<keyVars, simpleVars, iconVars, callerVars, raceVars>>

\* line 469
AlreadyProcessed(module) == module \in processed_items

\* lines 468-472: a module name processed before is skipped
WorkerCheck ==
    /\ worker.pc = "check"
    /\ worker' = IF AlreadyProcessed(worker.task.module)
                 THEN [worker EXCEPT !.pc = "get", !.task = NoTask]
                 ELSE [worker EXCEPT !.pc = "process"]
    /\ UNCHANGED <<image_queue, queue_event, processed_items, requests>>
    /\ UNCHANGED now
    /\ UNCHANGED cbVars
    /\ UNCHANGED cacheVars
    /\ UNCHANGED threadVars
    /\ UNCHANGED <<keyVars, simpleVars, iconVars, callerVars, raceVars>>

\* lines 474-479, process_module_with_retry (lines 430-455): the icon is looked
\* up and the callback puts the info in the request's module_info (line 556);
\* `ok' is false when the lookup has failed MAX_RETRIES times
WorkerProcess(ok) ==
    /\ worker.pc = "process"
    /\ IF ok
       THEN /\ requests' = [requests EXCEPT
                               !.module_info[worker.task.request] = @ \cup {worker.task.module}]
            /\ processed_items' = processed_items \cup {worker.task.module}
            /\ worker' = [worker EXCEPT !.pc = "signal"]
       ELSE /\ worker' = [worker EXCEPT !.pc = "signal", !.failed = @ \cup {worker.task}]
            /\ UNCHANGED <<requests, processed_items>>
    /\ UNCHANGED <<image_queue, queue_event>>
    /\ UNCHANGED now
    /\ UNCHANGED cbVars
    /\ UNCHANGED cacheVars
    /\ UNCHANGED threadVars
    /\ UNCHANGED <<keyVars, simpleVars, iconVars, callerVars, raceVars>>

\* lines 482-483: queue_event.set()
WorkerSignal ==
    /\ worker.pc = "signal"
    /\ queue_event' = TRUE
    /\ worker' = [worker EXCEPT !.pc = "get", !.task = NoTask]
    /\ UNCHANGED <<image_queue, processed_items, requests>>
    /\ UNCHANGED now
    /\ UNCHANGED cbVars
    /\ UNCHANGED cacheVars
    /\ UNCHANGED threadVars
    /\ UNCHANGED <<keyVars, simpleVars, iconVars, callerVars, raceVars>>

NextQueue ==
    \/ \E r \in Requests, ms \in RequestLists : RequestStart(r, ms)
    \/ \E r \in Requests : RequestPut(r)
    \/ \E r \in Requests, timed_out \in BOOLEAN : RequestWait(r, timed_out)
    \/ WorkerGet
    \/ WorkerCheck
    \/ \E ok \in BOOLEAN : WorkerProcess(ok)
    \/ WorkerSignal

\* the worker thread runs for as long as the process (lines 457, 496-497)
SpecQueue ==
    /\ Init
    /\ [][NextQueue]_vars
    /\ WF_vars(WorkerGet)
    /\ WF_vars(WorkerCheck)
    /\ WF_vars(\E ok \in BOOLEAN : WorkerProcess(ok))
    /\ WF_vars(WorkerSignal)

---------------------------------------------------------------------------
(***************************************************************************)

(* Claims about the CircuitBreaker (checked under SpecCB)                  *)
(***************************************************************************)

\* C1: starting closed with zero failures, after failure_threshold
\* record_failure() calls with no record_success() in between, each within
\* reset_timeout of the one before, the state is open, and every
\* allow_request() made while the time since the last recorded failure does
\* not exceed reset_timeout returns false.
C1_OpenAfterThreshold ==
    (cb.run >= failure_threshold /\ now - cb.failAt <= reset_timeout)
        => /\ state = "open"
           /\ cb.op = "allow_request" => cb.ret = FALSE

\* C1 witness: the breaker refused a request inside the window after the run
C1_Witness ==
    /\ cb.run = failure_threshold
    /\ now - cb.failAt <= reset_timeout
    /\ cb.op = "allow_request"
    /\ cb.ret = FALSE

\* C2: when the state is open and more than reset_timeout has elapsed since
\* the last recorded failure, the next allow_request() returns true and sets
\* the state to half-open; the state goes from open to half-open only in an
\* allow_request() call, never in a step in which only time passes.
C2_LazyHalfOpen ==
    [][ /\ (state = "open" /\ state' = "half-open")
            => (now' = now /\ cb'.op = "allow_request" /\ cb'.ret = TRUE)
        /\ (state = "open" /\ now - cb.failAt > reset_timeout
                /\ now' = now /\ cb'.op = "allow_request")
            => (cb'.ret = TRUE /\ state' = "half-open") ]_vars

\* C2 witness: an allow_request() found the breaker open, past the window,
\* and left it half-open
C2_Witness ==
    /\ cb.op = "allow_request"
    /\ cb.from = "open"
    /\ cb.ret = TRUE
    /\ state = "half-open"
    /\ now - cb.failAt > reset_timeout

\* C3: record_success(), called in any state, sets the failure counter to 0
\* and the state to closed, and every allow_request() after it returns true
\* until later record_failure() calls bring the counter back to
\* failure_threshold.
C3_SuccessCloses ==
    /\ cb.op = "record_success" => (failures = 0 /\ state = "closed")
    /\ cb.since = "below" => state = "closed"
    /\ (cb.since = "below" /\ cb.op = "allow_request") => cb.ret = TRUE

\* C3 witness: a record_success() closed an open breaker, a failure followed,
\* and a request was then allowed
C3_Witness ==
    /\ cb.since = "below"
    /\ cb.op = "allow_request"
    /\ cb.ret = TRUE
    /\ failures > 0

\* C3 witness of the call itself: record_success() on a breaker that was not closed
C3_WitnessFromOpen ==
    /\ cb.op = "record_success"
    /\ cb.from \in {"open", "half-open"}

---------------------------------------------------------------------------
(***************************************************************************)
(* Claims about the wrapper (checked under SpecWrapper) and about          *)
(* CacheStorage (checked under Spec).  In a state reached by a call, `last' *)
(* describes that call and `now' is the time it was made at.               *)
(***************************************************************************)

\* C4: whenever the cache holds an unexpired entry for the key derived from
\* the call's arguments, the wrapper returns that stored value and does not
\* invoke the wrapped operation, for every value an earlier call stored
\* under that key.
C4_HitSkipsOperation ==
    [][ \A key \in Keys :
          (/\ last'.op = "call"
           /\ last'.key = key
           /\ key \in DOMAIN local_cache
           /\ local_cache[key].expires > now)
          => (/\ ~last'.invoked
              /\ last'.ret = local_cache[key].value) ]_vars

C6_Expiry ==
    /\ (last.op = "get" /\ last.src \in {"memory", "disk"}) => last.exp > now
    /\ (/\ last.op = "get"
        /\ last.key \in DOMAIN last_set
        /\ now >= last_set[last.key].expires)
       => (last.src = "miss" /\ last.ret = None)
    /\ (last.op = "get" /\ last.src = "miss" /\ ~last.rerr)
       => (last.key \notin DOMAIN local_cache /\ last.key \notin DOMAIN disk)

\* C6, amended: get never returns a value whose expiry time is at or before
\* the time of the get; once ttl has elapsed since the last set(key, V, ttl)
\* get(key) returns absent, unless that set's disk write failed at open()
\* and so left an older file of key in place; and after a miss in which the
\* disk read did not fail, no entry of key is left in memory or on disk.
C6_ExpiryOfWrittenEntry ==
    /\ (last.op = "get" /\ last.src \in {"memory", "disk"}) => last.exp > now
    /\ (/\ last.op = "get"
        /\ last.key \in DOMAIN last_set
        /\ now >= last_set[last.key].expires
        /\ last_set[last.key].w # "open_fails")
       => (last.src = "miss" /\ last.ret = None)
    /\ (last.op = "get" /\ last.src = "miss" /\ ~last.rerr)
       => (last.key \notin DOMAIN local_cache /\ last.key \notin DOMAIN disk)

\* C6 witness: a get made once the ttl of a fully written set had elapsed
\* missed and left no entry of the key behind
C6_Witness ==
    /\ last.op = "get"
    /\ last.key \in DOMAIN last_set
    /\ now >= last_set[last.key].expires
    /\ last_set[last.key].w = "ok"
    /\ last.src = "miss"
    /\ ~last.rerr
    /\ last.key \notin DOMAIN local_cache
    /\ last.key \notin DOMAIN disk

\* C7: the memory table never holds more than MemCap entries; a set that
\* finds the table full evicts exactly one entry, one with the smallest
\* access_time, and a set of a key that is new to a full table evicts an
\* entry other than that key; the entry a set writes, and the entry a get
\* hits in memory, have their access_time set to the time of the call; a
\* set leaves the disk files of the other keys alone.
C7_Capacity ==
    /\ [](Cardinality(DOMAIN local_cache) <= MemCap)
    /\ [][ /\ last'.op = "set"
              => LET gone == DOMAIN local_cache \ DOMAIN local_cache' IN
                 /\ Cardinality(gone) <= 1
                 /\ \A k \in gone : \A j \in DOMAIN local_cache :
                        local_cache[k].access_time <= local_cache[j].access_time
                 /\ (/\ Cardinality(DOMAIN local_cache) = MemCap
                     /\ last'.key \notin DOMAIN local_cache)
                    => (Cardinality(gone) = 1 /\ gone = {last'.evicted})
                 /\ last'.key \in DOMAIN local_cache'
                 /\ local_cache'[last'.key].access_time = now
                 /\ \A k \in gone : k \in DOMAIN disk => (k \in DOMAIN disk' /\ disk'[k] = disk[k])
           /\ (last'.op = "get" /\ last'.src = "memory")
              => local_cache'[last'.key].access_time = now ]_vars

\* C7 witness: a set of a new key found the table full and evicted an entry
\* whose disk file remains
C7_Witness ==
    /\ last.op = "set"
    /\ last.evicted # NoKey
    /\ last.evicted # last.key
    /\ last.evicted \notin DOMAIN local_cache
    /\ last.evicted \in DOMAIN disk
    /\ Cardinality(DOMAIN local_cache) = MemCap

\* C8: when key has an unexpired entry only on disk, get(key) returns its
\* value and, by the time get returns, the memory table holds an entry of key.
C8_PromotionOnDiskHit ==
    (last.op = "get" /\ last.src = "disk") => last.key \in DOMAIN local_cache

\* C9: set writes the entry to memory and to disk; when the disk write fails
\* set still completes the memory write and returns normally; neither set nor
\* get raises a disk error to its caller; a failing disk read is a miss.
C9_TierErrorsIsolated ==
    /\ last.op \in {"set", "get"} => last.raised = "none"
    /\ last.op = "set"
       => /\ last.key \in DOMAIN local_cache
          /\ local_cache[last.key] = [value |-> last.value,
                                      expires |-> now + last.ttl,
                                      access_time |-> now]
    /\ (last.op = "set" /\ ~last.werr)
       => /\ last.key \in DOMAIN disk
          /\ disk[last.key] = File(last.value, now + last.ttl, now)
    /\ (last.op = "get" /\ last.rerr)
       => (last.src = "miss" /\ last.ret = None)

\* C9 witness: a set whose disk write failed returned with the memory entry
\* written and the disk file not
C9_Witness ==
    /\ last.op = "set"
    /\ last.werr
    /\ last.raised = "none"
    /\ last.key \in DOMAIN local_cache
    /\ local_cache[last.key].value = last.value
    /\ last.key \notin DOMAIN disk

\* C9 witness of the read: a get whose disk read failed returned a miss
C9_WitnessRead ==
    /\ last.op = "get"
    /\ last.rerr
    /\ last.src = "miss"
    /\ last.key \in DOMAIN disk

\* C10, as stated: when the wrapped operation raises, the wrapper propagates
\* the exception and stores nothing for the key in memory or on disk, and the
\* next call with the same arguments invokes the operation again.
C10_FailureNotCached ==
    [][ /\ (last'.op = "call" /\ last'.raised = "upstream")
           => LET key == last'.key IN
              /\ last'.invoked
              /\ key \in DOMAIN local_cache'
                 => /\ key \in DOMAIN local_cache
                    /\ local_cache'[key].value = local_cache[key].value
                    /\ local_cache'[key].expires = local_cache[key].expires
              /\ key \in DOMAIN disk'
                 => (key \in DOMAIN disk /\ disk'[key] = disk[key])
        /\ (last'.op = "call" /\ last'.after \in {"raise", "raise after read error"})
           => last'.invoked ]_vars

\* C10, amended: when the wrapped operation raises, the wrapper propagates
\* the exception and stores nothing for the key in memory or on disk, and the
\* next call with the same arguments invokes the operation again when the lookup of the call
\* that raised missed without a disk read error.
C10_FailureNotCachedAfterMiss ==
    [][ /\ (last'.op = "call" /\ last'.raised = "upstream")
           => LET key == last'.key IN
              /\ last'.invoked
              /\ key \in DOMAIN local_cache'
                 => /\ key \in DOMAIN local_cache
                    /\ local_cache'[key].value = local_cache[key].value
                    /\ local_cache'[key].expires = local_cache[key].expires
              /\ key \in DOMAIN disk'
                 => (key \in DOMAIN disk /\ disk'[key] = disk[key])
        /\ (last'.op = "call" /\ last'.after = "raise")
           => last'.invoked ]_vars

\* C10 witness: the call after one that raised invoked the operation again
C10_Witness ==
    /\ last.op = "call"
    /\ last.after = "raise"
    /\ last.invoked
    /\ last.key \notin DOMAIN disk

---------------------------------------------------------------------------
(***************************************************************************)
(* Further claims about the CircuitBreaker (checked under SpecCB)          *)
(***************************************************************************)

\* C14: record_failure() sets the counter to 1 when more than reset_timeout
\* has elapsed since the previously recorded failure and otherwise adds
\* exactly one to it; with failure_threshold > 1, a failure that comes more
\* than reset_timeout after the previous one leaves a closed breaker closed.
C14_WindowedCount ==
    [][ (cb'.op = "record_failure" /\ now' = now)
        => /\ now - last_failure_time > reset_timeout => failures' = 1
           /\ now - last_failure_time <= reset_timeout => failures' = failures + 1
           /\ last_failure_time' = now
           /\ (/\ state = "closed"
               /\ failure_threshold > 1
               /\ now - last_failure_time > reset_timeout)
              => state' = "closed" ]_vars

\* C14 witness: record_failure() found a counter above zero with the window
\* elapsed, set it to 1 and left the breaker closed
C14_Witness ==
    /\ cb.op = "record_failure"
    /\ cb.from = "closed"
    /\ cb.run = -1
    /\ cb.failAt = now
    /\ failures = 1
    /\ state = "closed"

\* C15: a record_failure() issued while the breaker is half-open leaves the
\* counter at or above failure_threshold and the state open.
C15_FailedProbeReopens ==
    (cb.op = "record_failure" /\ cb.from = "half-open")
    => (failures >= failure_threshold /\ state = "open")

\* C16, as stated: every change of state is one of closed -> open,
\* open -> half-open, half-open -> closed, half-open -> open.
C16_ListedTransitions ==
    [][ state' # state
        => <<state, state'>> \in {<<"closed", "open">>, <<"open", "half-open">>,
                                  <<"half-open", "closed">>, <<"half-open", "open">>} ]_vars

\* C16, amended: every change of state is one of closed -> open and
\* half-open -> open (made by record_failure), open -> half-open (made by
\* allow_request), half-open -> closed and open -> closed (made by
\* record_success); the state never goes from closed to half-open.
C16_TransitionsWithSuccess ==
    [][ state' # state
        => \/ /\ <<state, state'>> \in {<<"closed", "open">>, <<"half-open", "open">>}
              /\ cb'.op = "record_failure"
           \/ /\ <<state, state'>> = <<"open", "half-open">>
              /\ cb'.op = "allow_request"
           \/ /\ <<state, state'>> \in {<<"half-open", "closed">>, <<"open", "closed">>}
              /\ cb'.op = "record_success" ]_vars

\* C16 witness: a breaker that was half-open has been opened by record_failure
C16_Witness ==
    /\ cb.op = "record_failure"
    /\ cb.from = "half-open"
    /\ state = "open"

---------------------------------------------------------------------------
(***************************************************************************)
(* Claims about the wrapper and the breaker (checked under SpecGated)      *)
(***************************************************************************)

\* C11: the wrapped operation is never invoked while the breaker is open and
\* reset_timeout has not elapsed since the last failure: a call of the
\* wrapper made then does not invoke the operation.
C11_OpenBreakerGates ==
    [][ (/\ last'.op = "call"
         /\ access_counts' # access_counts
         /\ state = "open"
         /\ ~WindowElapsed(now))
        => ~last'.invoked ]_vars

\* C12: an invocation of the wrapped operation that returns is followed,
\* before the wrapper returns, by record_success(), and one that raises by
\* record_failure().
C12_BreakerBookkeeping ==
    [][ (/\ last'.op = "call"
         /\ access_counts' # access_counts
         /\ last'.invoked)
        => IF last'.raised = "upstream"
           THEN /\ cb'.op = "record_failure"
                /\ failures' = FailuresBefore(now) + 1
                /\ last_failure_time' = now
           ELSE /\ cb'.op = "record_success"
                /\ failures' = 0
                /\ state' = "closed" ]_vars

\* C13: a call with stream=True neither reads nor writes the cache: the
\* memory table, the disk files and the access counters are unchanged by the
\* call, and the call invokes the wrapped operation.
C13_StreamBypass ==
    [][ (/\ last'.op = "call"
         /\ last'.key \in StreamKeys
         /\ now' = now)
        => /\ last'.invoked
           /\ UNCHANGED <<local_cache, disk, access_counts>> ]_vars

\* C13, its second half alone: two calls with stream=True and the same
\* arguments both invoke the wrapped operation.
C13_StreamInvokedTwice ==
    (last.op = "call" /\ last.key \in StreamKeys) => last.invoked

---------------------------------------------------------------------------
(***************************************************************************)
(* Claims about files get cannot use (checked under SpecLeftOver)          *)
(***************************************************************************)

\* C18: when the file of key cannot be deserialized, or its version differs
\* from cache_version, get(key) returns absent without raising and deletes
\* the file: after a get that went to the disk and missed, no file of key
\* remains.
C18_BadFileDiscarded ==
    (last.op = "get" /\ last.src = "miss")
    => /\ last.ret = None
       /\ last.raised = "none"
       /\ last.key \notin DOMAIN disk

\* C18, the part of it about the version: after a get that went to the disk,
\* no file of key with another version than cache_version remains.
C18_OldVersionDiscarded ==
    (last.op = "get" /\ last.src # "memory")
    => (last.key \in DOMAIN disk => disk[last.key].version # previous_version)

\* a get found a file of an earlier version and deleted it
C18_WitnessOldVersion ==
    /\ last.op = "get"
    /\ last.src = "miss"
    /\ ~last.rerr
    /\ last_set = EmptyTable
    /\ last.key \notin DOMAIN disk

---------------------------------------------------------------------------
(***************************************************************************)
(* Claims about the CircuitBreaker under concurrency (SpecThreads)         *)
(***************************************************************************)

\* C17: for any interleaving of record_failure(), record_success() and
\* allow_request() calls from several threads, once the calls have returned
\* the counter, the time of the last failure, the state and what
\* allow_request returned are those the same calls give when made one after
\* the other in the order in which they entered; and when only
\* record_failure() has been called, N times inside the window on a fresh
\* breaker, failures = N and the state is open exactly when
\* N >= failure_threshold.
C17_Serializable ==
    (\A t \in Threads : th.pc[t] = "idle")
    => /\ failures = th.serial.failures
       /\ last_failure_time = th.serial.last_failure_time
       /\ state = th.serial.state
       /\ th.ret = th.serial.ret
       /\ (th.nother = 0 /\ th.nfail > 0 /\ now - StartTime <= reset_timeout)
          => /\ failures = th.nfail
             /\ state = "open" <=> th.nfail >= failure_threshold

\* C17 witness: two threads have each made all their calls, all of them
\* record_failure() inside the window, and the breaker has opened
C17_Witness ==
    /\ \A t \in Threads : th.pc[t] = "idle" /\ th.calls[t] = MaxThreadCalls
    /\ th.nother = 0
    /\ now - StartTime <= reset_timeout
    /\ failures = MaxThreadCalls + MaxThreadCalls
    /\ failures >= failure_threshold
    /\ state = "open"

---------------------------------------------------------------------------
(***************************************************************************)
(* Claims about the maintenance thread (checked under SpecMaint)           *)
(***************************************************************************)

\* C19: right after a cleanup has completed, neither the memory table nor
\* the disk directory holds an entry whose expiry time is at or before the
\* time of the sweep.
C19_SweepRemovesExpired ==
    (last_cleanup = now /\ last_cleanup > StartTime)
    => /\ \A k \in DOMAIN local_cache : local_cache[k].expires > now
       /\ \A k \in DOMAIN disk : disk[k].readable => disk[k].expires > now

\* C20: an exception that leaves a sweep is caught and the thread is never
\* dead: it sleeps error_delay, goes back to the sleep at the head of the
\* loop, and from there begins a later sweep (each sleep returning as long as
\* the clock of the model can reach the time at which it ends).
C20_LoopSurvives ==
    /\ [](maint.pc # "dead")
    /\ [][ /\ (maint.pc \in {"warm", "cleanup"} /\ maint'.exc # maint.exc)
              => maint'.pc = "error_sleep"
           /\ (maint.pc = "error_sleep" /\ maint'.pc # "error_sleep")
              => maint'.pc = "sleep" ]_vars
    /\ (/\ maint.pc = "error_sleep"
        /\ maint.since + error_delay <= StartTime + MaintTicks)
       ~> (maint.pc = "sleep")
    /\ (/\ maint.pc = "sleep"
        /\ maint.exc # "none"
        /\ maint.since + warm_cache_interval <= StartTime + MaintTicks)
       ~> (maint.pc = "warm")

\* C20 witness: after an exception left a sweep the thread has begun another
C20_Witness ==
    /\ maint.exc # "none"
    /\ maint.pc = "warm"
    /\ maint.ticks > 1

\* C21: a get adds one to the access counter of its key and sets the record's
\* last-access time to the time of the get, whether or not the key is held;
\* whenever a key's counter is at least access_threshold the key is in the
\* frequently-accessed set; a cleanup that runs drops every access record
\* whose last access is older than the retention, leaves the others as they
\* were, and makes the frequently-accessed set exactly the keys whose
\* remaining counter is at least access_threshold.
C21_AccessTracking ==
    /\ [](\A k \in DOMAIN access_counts :
             access_counts[k].count >= access_threshold => k \in frequently_accessed)
    /\ [][ /\ (last'.op = "call" /\ last' # last /\ now' = now)
              => /\ last'.key \in DOMAIN access_counts'
                 /\ access_counts'[last'.key].count = CountOf(last'.key) + 1
                 /\ access_counts'[last'.key].last_access = now
                 /\ \A k \in DOMAIN access_counts' \ {last'.key} :
                        k \in DOMAIN access_counts /\ access_counts'[k] = access_counts[k]
           /\ (last_cleanup' # last_cleanup)
              => /\ \A k \in DOMAIN access_counts :
                        now - access_counts[k].last_access > retention
                        => k \notin DOMAIN access_counts'
                 /\ \A k \in DOMAIN access_counts' :
                        k \in DOMAIN access_counts /\ access_counts'[k] = access_counts[k]
                 /\ frequently_accessed'
                        = {k \in DOMAIN access_counts' :
                               access_counts'[k].count >= access_threshold} ]_vars

\* C21 witness: a get served from memory has brought the counter of its key
\* to access_threshold, and the key is in the frequently-accessed set
C21_Witness ==
    /\ last.op = "call"
    /\ last.src = "memory"
    /\ CountOf(last.key) = access_threshold
    /\ last.key \in frequently_accessed

\* C21: a cleanup has dropped the access record of a key that was frequent
C21_WitnessCleanup ==
    /\ last_cleanup > StartTime
    /\ access_counts = EmptyTable
    /\ frequently_accessed = {}
    /\ local_cache # EmptyTable

\* C26: the warming pass of a maintenance tick ends and leaves the cache lock
\* free, so that a get or set of a request thread can take it: the
\* maintenance thread never waits inside the pass while holding the lock.
C26_WarmingReleasesLock ==
    /\ lock = "free"
    /\ maint.pc # "blocked"

\* C27: the failure outcome of the upstream call is stored in no tier, and a
\* call that returns the failure outcome to its caller has attempted the
\* upstream call itself (it is not served a stored failure).
C27_UpstreamFailureNotCached ==
    /\ \A k \in DOMAIN local_cache : local_cache[k].value # UpstreamError
    /\ \A k \in DOMAIN disk : disk[k].readable => disk[k].value # UpstreamError
    /\ (last.op = "call" /\ last.ret = UpstreamError) => last.invoked

---------------------------------------------------------------------------
(***************************************************************************)
(* Claims about the cache key (checked under SpecKeys)                     *)
(***************************************************************************)

\* C24: two calls with the same positional arguments and the same keyword
\* name and value pairs, written in any order, derive the same cache key.
C24_KeyIgnoresKeywordOrder ==
    \A i, j \in 1..Len(key_calls) :
        (/\ key_calls[i].decorator = key_calls[j].decorator
         /\ key_calls[i].args = key_calls[j].args
         /\ Range(key_calls[i].kwargs) = Range(key_calls[j].kwargs))
        => key_calls[i].key = key_calls[j].key

\* C24 witness: two calls whose keyword arguments were written in different
\* orders
C24_Witness ==
    /\ Len(key_calls) = 2
    /\ Len(key_calls[1].kwargs) = 2
    /\ key_calls[1].kwargs # key_calls[2].kwargs
    /\ key_calls[1].key = key_calls[2].key

---------------------------------------------------------------------------
(***************************************************************************)
(* Claims about SimpleCache (checked under SpecSimple).  In a state        *)
(* reached by a call, sc_last describes that call.                         *)
(***************************************************************************)

\* C28: a get that misses memory and finds an unexpired file returns the
\* file's value and puts the key back in memory, and in the rewritten file,
\* with the expiry time the file had: the entry's lifetime is not extended.
C28_BackfillKeepsExpiry ==
    (sc_last.op = "get" /\ sc_last.src = "disk")
    => /\ sc_last.ret # None
       /\ sc_last.key \in CacheKeys(cache)
       /\ Entry(cache, sc_last.key).value = sc_last.ret
       /\ Entry(cache, sc_last.key).expires = sc_last.exp
       /\ (sc_last.key \in DOMAIN cache_files /\ cache_files[sc_last.key].readable)
          => cache_files[sc_last.key].expires = sc_last.exp

\* C29: the memory table never holds more than max_size entries, and a set
\* called with the table at max_size removes the least recently used entry.
C29_EvictionIsLRU ==
    /\ Len(cache) <= max_size
    /\ (sc_last.op = "set" /\ sc_last.full) => sc_last.evicted = sc_last.lru

---------------------------------------------------------------------------
(***************************************************************************)
(* Claims about the icon caches (checked under SpecIcons).  In a state     *)
(* reached by a call, icon_last describes that call and `now' is the time  *)
(* it was made at.                                                         *)
(***************************************************************************)

\* C23: when the Redis call of a get or a set raises, the call does not
\* raise; the get returns what the next tier gives (the module's file for
\* icon_cache.IconCache, the memory table for utils.IconCache) and the set
\* has written that tier (for the file: unless the file write failed too).
C23_RedisErrorsIsolated ==
    (icon_last.redis_raised /\ icon_last.op \in {"get", "set"})
    => /\ ~icon_last.raised
       /\ (icon_last.cls = "icon_cache" /\ icon_last.op = "get")
          => /\ icon_last.src # "redis"
             /\ icon_last.ret = FileData(icon_fs, IconKey(icon_last.module), now,
                                         icon_last.fr)
       /\ (icon_last.cls = "icon_cache" /\ icon_last.op = "set" /\ icon_last.fw = "ok")
          => /\ IconKey(icon_last.module) \in DOMAIN icon_fs
             /\ icon_fs[IconKey(icon_last.module)]
                    = [readable |-> TRUE, data |-> icon_last.ret, timestamp |-> now]
       /\ (icon_last.cls = "utils" /\ icon_last.op = "get")
          => /\ icon_last.src # "redis"
             /\ icon_last.ret = MemoryPath(memory_cache, PathKey(icon_last.module), now)
       /\ (icon_last.cls = "utils" /\ icon_last.op = "set")
          => /\ PathKey(icon_last.module) \in DOMAIN memory_cache
             /\ memory_cache[PathKey(icon_last.module)]
                    = [path |-> icon_last.ret, timestamp |-> now]

\* C23 witness: a get of icon_cache.IconCache whose Redis call raised
\* returned the data of the module's file
C23_Witness ==
    /\ icon_last.op = "get"
    /\ icon_last.cls = "icon_cache"
    /\ icon_last.redis_raised
    /\ icon_last.src = "fs"
    /\ icon_last.ret = "D"

\* C23: a set_icon of utils.IconCache whose Redis call raised wrote the
\* memory table, and a get_icon whose Redis call raised returned the path
C23_WitnessMemory ==
    /\ icon_last.op = "get"
    /\ icon_last.cls = "utils"
    /\ icon_last.redis_raised
    /\ icon_last.src = "memory"
    /\ USE_REDIS

\* C30: once clear has been called for a module, or for all modules, a get
\* of the module returns None until the module is set again.
C30_ClearedModuleIsGone ==
    (/\ icon_last.op = "get"
     /\ icon_last.cls = "icon_cache"
     /\ icon_last.module \in icon_last.cleared)
    => icon_last.ret = None

---------------------------------------------------------------------------
(***************************************************************************)
(* Claims about concurrent callers of the wrapper (SpecCallers)            *)
(***************************************************************************)

\* C22: a thread that has finished its call has a result; two threads that
\* both missed have both invoked the operation, and once both have finished
\* the memory table holds the key with the result of the thread that wrote
\* memory last.
C22_LastWriteWins ==
    /\ \A t \in Threads : callers.pc[t] = "done" => callers.ret[t] \in {"A", "B"}
    /\ (\A t \in Threads : callers.pc[t] = "done" /\ callers.invoked[t])
       => /\ Len(callers.stores) = 2
          /\ SharedKey \in DOMAIN local_cache
          /\ local_cache[SharedKey].value = ResultFor(callers.stores[2])

\* C22 witness: both threads missed, both invoked the operation and both
\* have finished; the thread that started first wrote memory last
C22_Witness ==
    /\ \A t \in Threads : callers.pc[t] = "done" /\ callers.invoked[t]
    /\ callers.ret["t1"] = "A"
    /\ callers.ret["t2"] = "B"
    /\ callers.stores = <<"t2", "t1">>
    /\ local_cache[SharedKey].value = "A"

---------------------------------------------------------------------------
(***************************************************************************)
(* Claims about the counters of CacheStorage (checked under Spec)          *)
(***************************************************************************)

\* C25: the counters never decrease, and every get and every set changes
\* them exactly once: the total of the counters CacheStorage keeps is one
\* higher after the call than before it.
C25_EveryCallCounted ==
    [][ /\ TotalCount(access_counts') >= TotalCount(access_counts)
        /\ (last' # last /\ last'.op \in {"get", "set"})
           => TotalCount(access_counts') = TotalCount(access_counts) + 1 ]_vars

---------------------------------------------------------------------------
(***************************************************************************)
(* Invariants of the CircuitBreaker (checked under SpecCB)                 *)
(***************************************************************************)

\* C34: whatever record_failure, record_success and allow_request calls are
\* made and whenever, an open breaker carries a counter that has reached
\* failure_threshold.
C34_OpenImpliesThreshold ==
    state = "open" => failures >= failure_threshold

\* C35: whatever calls are made and whenever, a closed breaker carries a
\* counter below failure_threshold.
C35_ClosedBelowThreshold ==
    state = "closed" => failures < failure_threshold

\* C35 witness: a record_failure has just taken the counter of a closed
\* breaker to one below the threshold
C35_Witness ==
    /\ cb.op = "record_failure"
    /\ state = "closed"
    /\ failures = failure_threshold - 1

\* C35 witness: a record_success has just closed a breaker whose counter
\* had reached the threshold
C35_WitnessAfterOpen ==
    /\ cb.op = "record_success"
    /\ cb.from = "open"
    /\ state = "closed"
    /\ failures = 0

---------------------------------------------------------------------------
(***************************************************************************)
(* Claims about a set of a key the memory table holds (checked under Spec) *)
(***************************************************************************)

\* C33: a set of a key that is already in the memory table replaces that
\* key's entry and leaves the memory entry of every other key in place, also
\* when the table is at capacity.  (Stated for tables whose entries have
\* different access times, where line 98 has one choice.)
C33_ResetKeepsOthers ==
    [][ (/\ last'.op = "set"
         /\ last'.key \in DOMAIN local_cache
         /\ \A j, k \in DOMAIN local_cache :
                j # k => local_cache[j].access_time # local_cache[k].access_time)
        => /\ last'.key \in DOMAIN local_cache'
           /\ local_cache'[last'.key].value = last'.value
           /\ \A k \in DOMAIN local_cache \ {last'.key} :
                  /\ k \in DOMAIN local_cache'
                  /\ local_cache'[k] = local_cache[k] ]_vars

---------------------------------------------------------------------------
(***************************************************************************)
(* Invariants of the access tracking (checked under SpecMaint)             *)
(***************************************************************************)

\* C38: in every state reached by gets, sets and maintenance cleanups, every
\* key of the frequently-accessed set has an access record, and the count of
\* that record is at least access_threshold.
C38_FrequentHaveCounts ==
    \A k \in frequently_accessed :
        /\ k \in DOMAIN access_counts
        /\ access_counts[k].count >= access_threshold

\* C38 witness: a cleanup has run and a key is in the frequently-accessed
\* set, its counter past the threshold
C38_Witness ==
    /\ last_cleanup > StartTime
    /\ frequently_accessed # {}
    /\ \E k \in frequently_accessed : access_counts[k].count > access_threshold

\* C38 witness: a cleanup has dropped the record of a key that had been
\* frequent, and that key has been looked up again since
C38_WitnessDropped ==
    /\ last_cleanup > StartTime
    /\ \E k \in DOMAIN access_counts :
           /\ access_counts[k].count < access_threshold
           /\ access_counts[k].last_access >= last_cleanup
           /\ k \in DOMAIN local_cache
    /\ frequently_accessed = {}

---------------------------------------------------------------------------
(***************************************************************************)
(* Claims about the keys of different calls (checked under SpecKeyPairs)   *)
(***************************************************************************)

\* C39: two calls of a decorated function whose positional arguments or
\* keyword name/value pairs differ have different strings hashed, and so
\* different cache keys; the arguments are strings, some of them holding the
\* "|" and ":" the derivation joins with.
C39_DistinctCallsDistinctKeys ==
    (/\ Len(key_calls) = 2
     /\ \/ key_calls[1].args # key_calls[2].args
        \/ Range(key_calls[1].kwargs) # Range(key_calls[2].kwargs))
    => /\ key_string(key_calls[1].decorator, key_calls[1].args, key_calls[1].kwargs)
          # key_string(key_calls[2].decorator, key_calls[2].args, key_calls[2].kwargs)
       /\ key_calls[1].key # key_calls[2].key

---------------------------------------------------------------------------
(***************************************************************************)
(* Claims about concurrent gets and sets of one key (SpecRaces)            *)
(***************************************************************************)

\* C36: when two threads have each called set for the same key, the one
\* with value A and the other with value B, and both calls have returned,
\* the memory entry and the disk file of the key hold the same value.
C36_TiersAgree ==
    (/\ \A t \in Threads : racers.pc[t] = "idle" /\ racers.op[t] = "set"
     /\ SharedKey \in DOMAIN local_cache
     /\ SharedKey \in DOMAIN disk)
    => local_cache[SharedKey].value = disk[SharedKey].value

\* C37: once a set of a key has returned, and while no later set has written
\* the key's file and the entry has not expired, the file holds the entry
\* that set wrote; and the removal a get makes at line 152 only ever removes
\* a file that is expired at the time of the get.
C37_GetKeepsFreshWrite ==
    /\ [](\A t \in Threads :
             (/\ racers.pc[t] = "idle"
              /\ racers.op[t] = "set"
              /\ racers.wrote = t
              /\ Fresh(racers.exp[t], now))
             => /\ SharedKey \in DOMAIN disk
                /\ disk[SharedKey].value = racers.value[t]
                /\ disk[SharedKey].expires = racers.exp[t])
    /\ [][ \A t \in Threads :
              (/\ racers.pc[t] = "get_remove"
               /\ racers'.pc[t] = "idle"
               /\ SharedKey \in DOMAIN disk)
              => ~Fresh(disk[SharedKey].expires, racers.current_time[t]) ]_vars

---------------------------------------------------------------------------
(***************************************************************************)
(* Claims about the image queue (checked under SpecQueue)                  *)
(***************************************************************************)

\* C31: a request builds its result only after the worker has processed
\* every task the request put on the queue, or after its wait has timed out:
\* when the wait of a request has ended because queue_event was set (and no
\* icon lookup of the request has failed), the module_info the result is
\* built from has an entry for every module the request enqueued.
C31_RequestWaitsForItsTasks ==
    \A r \in Requests :
        (/\ requests.pc[r] = "done"
         /\ requests.ended[r] = "event"
         /\ \A t \in worker.failed : t.request # r)
        => requests.result[r] = Range(requests.modules[r])

\* C32: every task a request puts on the queue is served: the worker
\* eventually calls its callback, which puts the module's info in the
\* request's module_info, unless the icon lookup of the task fails
\* MAX_RETRIES times; also when a task of an earlier request had the same
\* module name.
C32_EveryTaskServed ==
    \A r \in Requests, m \in Modules :
        ([module |-> m, request |-> r] \in Range(image_queue))
        ~> (\/ m \in requests.module_info[r]
            \/ [module |-> m, request |-> r] \in worker.failed)

=============================================================================
